---- MODULE Spec2Model ----
(***************************************************************************)
(* Model of the comfyui-agent runtime: the ReAct agent loop (AgentLoop),   *)
(* its Mealy state machine, the session store, the summarizer, the context *)
(* manager and the tool executor.  One AgentLoop instance is shared by all *)
(* sessions, as in WebServer.                                              *)
(***************************************************************************)
EXTENDS Integers, Sequences, FiniteSets, TLC

(***************************************************************************)
(* Bounds and configuration                                                *)
(***************************************************************************)
\* AgentLoop(max_iterations=...): iterations allowed in one turn
max_iterations == 4
\* largest number of tool calls the LLM puts in one response
MaxCalls == 2

Sessions == {"s1", "s2"}

\* Summarizer(threshold=..., keep_recent=...)
threshold == 60
keep_recent == 1

\* ContextManager: overhead constants and the resolved default budget
_SYSTEM_OVERHEAD == 2000
_TOOL_SCHEMA_OVERHEAD == 3000
_SAFETY_BUFFER == 5000
_DEFAULT_CONTEXT_SIZE == 200000
max_output_tokens == 8192
history_budget ==
    _DEFAULT_CONTEXT_SIZE - _SYSTEM_OVERHEAD - _TOOL_SCHEMA_OVERHEAD
        - max_output_tokens - _SAFETY_BUFFER

\* ToolExecutor output limit
MAX_TOOL_RESULT_CHARS == 15000

\* character lengths of the texts that occur in a turn
UserInputLen == 2          \* "hi"
AnswerLen == 5             \* "hello"
ToolInputLen == 25         \* json.dumps({"action": "list_models"})
ToolOkLen == 2             \* "ok"
ToolErrLen == 40           \* "Tool 'dispatch' failed: ..."
SummaryLen == 60           \* "[Previous conversation summary]\n..."
CancelledLen == 18         \* "Request cancelled."
MaxStepsLen == 71          \* "I've reached the maximum number of steps. ..."

(***************************************************************************)
(* Event types (domain/models/events.py)                                   *)
(***************************************************************************)
\* the enum with the member the summarizer names, CONTEXT_SUMMARIZED
EventTypeWithSummarized ==
    { "stream.text_delta", "stream.tool_call_start", "stream.tool_call_delta",
      "stream.message_stop",
      "state.conversation_start", "state.thinking", "state.responding",
      "state.tool_planned", "state.tool_executing", "state.tool_completed",
      "state.tool_failed", "state.conversation_end", "state.error",
      "message.user", "message.assistant", "message.tool_call",
      "message.tool_result", "message.error",
      "turn.start", "turn.end", "context.summarized",
      "comfyui.progress", "comfyui.executing", "comfyui.executed",
      "comfyui.preview", "comfyui.error", "comfyui.queue_update",
      "workflow.submitted" }

\* the members of EventType, by value
EventType ==
    { "stream.text_delta", "stream.tool_call_start", "stream.tool_call_delta",
      "stream.message_stop",
      "state.conversation_start", "state.thinking", "state.responding",
      "state.tool_planned", "state.tool_executing", "state.tool_completed",
      "state.tool_failed", "state.conversation_end", "state.error",
      "message.user", "message.assistant", "message.tool_call",
      "message.tool_result", "message.error",
      "turn.start", "turn.end",
      "comfyui.progress", "comfyui.executing", "comfyui.executed",
      "comfyui.preview", "comfyui.error", "comfyui.queue_update",
      "workflow.submitted" }

AgentState ==
    { "idle", "thinking", "responding", "planning_tool",
      "awaiting_tool_result", "error" }

(***************************************************************************)
(* State machine (application/state_machine.py)                            *)
(***************************************************************************)
\* a table without the recovery from the error state
_TRANSITIONS_NoRecovery ==
    { <<"idle", "state.conversation_start", "thinking">>,
      <<"thinking", "state.responding", "responding">>,
      <<"thinking", "state.tool_planned", "planning_tool">>,
      <<"responding", "state.tool_planned", "planning_tool">>,
      <<"planning_tool", "state.tool_executing", "awaiting_tool_result">>,
      <<"awaiting_tool_result", "state.tool_completed", "thinking">>,
      <<"awaiting_tool_result", "state.tool_failed", "thinking">>,
      <<"responding", "state.conversation_end", "idle">>,
      <<"thinking", "state.conversation_end", "idle">>,
      <<"thinking", "state.error", "error">>,
      <<"responding", "state.error", "error">>,
      <<"planning_tool", "state.error", "error">>,
      <<"awaiting_tool_result", "state.error", "error">> }

\* the transition table as a set of <<state, event, new state>>
_TRANSITIONS ==
    { <<"idle", "state.conversation_start", "thinking">>,
      <<"thinking", "state.responding", "responding">>,
      <<"thinking", "state.tool_planned", "planning_tool">>,
      <<"responding", "state.tool_planned", "planning_tool">>,
      <<"planning_tool", "state.tool_executing", "awaiting_tool_result">>,
      <<"awaiting_tool_result", "state.tool_completed", "thinking">>,
      <<"awaiting_tool_result", "state.tool_failed", "thinking">>,
      <<"responding", "state.conversation_end", "idle">>,
      <<"thinking", "state.conversation_end", "idle">>,
      <<"thinking", "state.error", "error">>,
      <<"responding", "state.error", "error">>,
      <<"planning_tool", "state.error", "error">>,
      <<"awaiting_tool_result", "state.error", "error">>,
      <<"error", "state.conversation_end", "idle">> }

\* AgentStateMachine.process: the new state, unchanged when the pair is
\* not in the table
process(st, ev) ==
    IF \E t \in _TRANSITIONS : t[1] = st /\ t[2] = ev
    THEN (CHOOSE t \in _TRANSITIONS : t[1] = st /\ t[2] = ev)[3]
    ELSE st

(***************************************************************************)
(* Token estimation (application/context_manager.py)                       *)
(***************************************************************************)
Max(a, b) == IF a >= b THEN a ELSE b

\* estimate_tokens on a text of n characters
estimate_tokens(n) == Max(1, n \div 4)

RECURSIVE SumSeq(_)
SumSeq(q) == IF q = <<>> THEN 0 ELSE Head(q) + SumSeq(Tail(q))

\* the length of the text a block contributes to _content_text:
\* text, else content, else json.dumps(input)
\* (an empty text or content is falsy, so json.dumps("") = '""' stands in)
BlockTextLen(b) ==
    IF b.type = "tool_use" THEN b.inlen
    ELSE IF b.len > 0 THEN b.len
    ELSE 2

\* _content_text: a string as it is, a block list joined with " "
_content_text(c) ==
    IF c.kind = "str" THEN c.len
    ELSE IF c.blocks = <<>> THEN 0
    ELSE SumSeq([i \in 1..Len(c.blocks) |-> BlockTextLen(c.blocks[i])])
             + (Len(c.blocks) - 1)

estimate_messages_tokens(msgs) ==
    SumSeq([i \in 1..Len(msgs) |-> 4 + estimate_tokens(_content_text(msgs[i].content))])

(***************************************************************************)
(* Messages (application/message_builder.py)                               *)
(***************************************************************************)
\* a plain string content: which text it is, its length, and whether the
\* text is itself a JSON document (json.loads accepts it)
StrContent(tag, n) == [kind |-> "str", text |-> tag, len |-> n, js |-> FALSE]
BlockContent(bs) == [kind |-> "blocks", blocks |-> bs]

\* a message kept in memory under the other role
MessageOtherRole(role, content) ==
    [role |-> IF role = "user" THEN "assistant" ELSE "user", content |-> content]

Message(role, content) == [role |-> role, content |-> content]

\* an LLM tool call and the blocks built from it
ToolCall(id, name) == [id |-> id, name |-> name, inlen |-> ToolInputLen]

TextBlock(n) == [type |-> "text", len |-> n]
ToolUseBlock(tc) ==
    [type |-> "tool_use", id |-> tc.id, name |-> tc.name, inlen |-> tc.inlen]

build_tool_result_block(tool_use_id, n, is_error) ==
    [type |-> "tool_result", tool_use_id |-> tool_use_id, len |-> n,
     is_error |-> is_error]

\* build_assistant_message: the text block only when the text is non-empty,
\* then one tool_use block per tool call, in order
build_assistant_message(resp) ==
    Message("assistant",
        BlockContent(
            (IF resp.textlen > 0 THEN <<TextBlock(resp.textlen)>> ELSE <<>>)
            \o [i \in 1..Len(resp.tool_calls) |-> ToolUseBlock(resp.tool_calls[i])]))

build_tool_results_message(results) == Message("user", BlockContent(results))

(***************************************************************************)
(* Session store (infrastructure/persistence/session_store.py)             *)
(***************************************************************************)
\* append_message stores a string as it is and json.dumps anything else
Encode(c) ==
    IF c.kind = "str" THEN [enc |-> "raw", v |-> c]
    ELSE [enc |-> "json", v |-> c]

\* load_messages*: json.loads of the stored text, the text itself when it
\* does not parse
Decode(e) ==
    IF e.enc = "json" THEN e.v
    ELSE IF e.v.js THEN [kind |-> "json", text |-> e.v.text]
    ELSE e.v

\* rows of one session, in id order (rows are kept in insertion order and
\* ids are assigned increasingly)
SessionRows(rows, sid) == SelectSeq(rows, LAMBDA r : r.session_id = sid)

\* SELECT COALESCE(MAX(ordinal), -1) + 1
NextOrdinal(rows, sid) ==
    LET mine == SessionRows(rows, sid)
        ords == {mine[i].ordinal : i \in 1..Len(mine)}
    IN  IF ords = {} THEN 0
        ELSE (CHOOSE m \in ords : \A o \in ords : o <= m) + 1

\* an append that replaces the latest message of the session
AppendRowReplacing(rows, last, sid, role, content) ==
    Append(SelectSeq(rows, LAMBDA r :
                        r.session_id # sid \/ r.ordinal + 1 # NextOrdinal(rows, sid)),
           [id |-> last + 1, session_id |-> sid, role |-> role,
            content |-> Encode(content),
            ordinal |-> NextOrdinal(rows, sid)])

\* the table after append_message(sid, role, content) when the last
\* assigned row id is last
AppendRow(rows, last, sid, role, content) ==
    Append(rows, [id |-> last + 1, session_id |-> sid, role |-> role,
                  content |-> Encode(content),
                  ordinal |-> NextOrdinal(rows, sid)])

load_messages_from(rows, sid, from_id) ==
    LET sel == SelectSeq(rows, LAMBDA r : r.session_id = sid /\ r.id >= from_id)
    IN  [i \in 1..Len(sel) |-> Message(sel[i].role, Decode(sel[i].content))]

load_messages(rows, sid) == load_messages_from(rows, sid, 0)

(***************************************************************************)
(* Context manager (application/context_manager.py)                        *)
(***************************************************************************)
\* digits of str(n)
RECURSIVE Digits(_)
Digits(n) == IF n < 10 THEN 1 ELSE 1 + Digits(n \div 10)

\* a tool_result over 500 characters keeps 200 and gets the marker
\* "\n\n... [truncated, was N chars]"
CompactBlock(b) ==
    IF b.type = "tool_result" /\ b.len > 500
    THEN [b EXCEPT !.len = 200 + 22 + Digits(b.len) + 7]
    ELSE b

_compact_tool_results(msgs, keep) ==
    LET cutoff == Max(0, Len(msgs) - keep)
    IN  [i \in 1..Len(msgs) |->
            IF i > cutoff \/ msgs[i].content.kind # "blocks" THEN msgs[i]
            ELSE [msgs[i] EXCEPT !.content.blocks =
                    [j \in 1..Len(msgs[i].content.blocks) |->
                        CompactBlock(msgs[i].content.blocks[j])]]]

\* a user message that is not a tool-result carrier
IsPlainUser(m) ==
    /\ m.role = "user"
    /\ \/ m.content.kind = "str"
       \/ /\ m.content.kind = "blocks"
          /\ m.content.blocks # <<>>
          /\ m.content.blocks[1].type # "tool_result"

_emergency_trim(msgs) ==
    LET idx == {i \in 1..Len(msgs) : IsPlainUser(msgs[i])}
    IN  IF idx # {}
        THEN SubSeq(msgs, CHOOSE i \in idx : \A j \in idx : j <= i, Len(msgs))
        ELSE IF Len(msgs) >= 2 THEN SubSeq(msgs, Len(msgs) - 1, Len(msgs))
        ELSE msgs

prepare_messages(msgs) ==
    IF estimate_messages_tokens(msgs) <= history_budget THEN msgs
    ELSE LET compacted == _compact_tool_results(msgs, 6)
         IN  IF estimate_messages_tokens(compacted) <= history_budget
             THEN compacted
             ELSE _emergency_trim(compacted)

(***************************************************************************)
(* Tool executor (application/tool_executor.py)                            *)
(***************************************************************************)
\* what a tool does when it is run
ToolKinds == {"ok", "ok_workflow", "is_error", "raises", "timeout", "unknown"}

\* _truncate: the length of the returned text (the marker is
\* "\n\n... [N lines truncated] ...\n\n" with N = lines the middle part had)
_truncate(n, mid_lines) ==
    IF n <= MAX_TOOL_RESULT_CHARS THEN n
    ELSE 2 * (MAX_TOOL_RESULT_CHARS \div 2) + 7 + Digits(mid_lines) + 23

\* a ToolResult, and what became of the call: whether the tool was run and
\* whether execute raised
ToolResult(n, is_error, workflow, ran) ==
    [len |-> n, is_error |-> is_error, workflow |-> workflow, ran |-> ran,
     raised |-> FALSE]

\* an execute without its except clauses: the exception of the tool and
\* the TimeoutError of wait_for leave it
executeUnguarded(kind) ==
    CASE kind = "unknown"     -> ToolResult(ToolErrLen, TRUE, FALSE, FALSE)
      [] kind = "timeout"     -> [ToolResult(0, FALSE, FALSE, TRUE) EXCEPT !.raised = TRUE]
      [] kind = "raises"      -> [ToolResult(0, FALSE, FALSE, TRUE) EXCEPT !.raised = TRUE]
      [] kind = "is_error"    -> ToolResult(_truncate(ToolErrLen, 0), TRUE, FALSE, TRUE)
      [] kind = "ok_workflow" -> ToolResult(_truncate(ToolOkLen, 0), FALSE, TRUE, TRUE)
      [] OTHER                -> ToolResult(_truncate(ToolOkLen, 0), FALSE, FALSE, TRUE)

\* ToolExecutor.execute: always a ToolResult
execute(kind) ==
    CASE kind = "unknown"     -> ToolResult(ToolErrLen, TRUE, FALSE, FALSE)
      [] kind = "timeout"     -> ToolResult(ToolErrLen, TRUE, FALSE, TRUE)
      [] kind = "raises"      -> ToolResult(ToolErrLen, TRUE, FALSE, TRUE)
      [] kind = "is_error"    -> ToolResult(_truncate(ToolErrLen, 0), TRUE, FALSE, TRUE)
      [] kind = "ok_workflow" -> ToolResult(_truncate(ToolOkLen, 0), FALSE, TRUE, TRUE)
      [] OTHER                -> ToolResult(_truncate(ToolOkLen, 0), FALSE, FALSE, TRUE)

(***************************************************************************)
(* State                                                                   *)
(***************************************************************************)
VARIABLES
    pc,            \* where each session's AgentLoop.run task is suspended
    state,         \* AgentStateMachine._state of the shared state machine
    cancel_flags,  \* AgentLoop._cancel_flags: a map session id -> bool
    messages,      \* run's local message list, per session
    iteration,     \* run's loop variable (0-based, -1 before the loop)
    total_usage,   \* run's accumulated usage
    response,      \* the LLM response the run is working on
    rows,          \* table messages of the session store, in id order
    last_rowid,    \* AUTOINCREMENT counter of table messages
    meta,          \* table sessions: per session its metadata
    trace,         \* events the loop emitted on the bus, per session
    result,        \* what run returned or raised
    llm_calls,     \* calls of llm.chat made by run, per session
    cancel_at,     \* the iteration (1-based, 0 before the loop) in which the
                   \* flag of the running turn was set by cancel, else -1
    idle_cancel,   \* per session "pending" once cancel was called while no
                   \* turn of it ran, "carried" in the turn started after that
    cm_in,         \* the list handed to ContextManager.prepare_messages
    cm_out,        \* the list it returned
    cm_done,       \* whether prepare_messages was called
    ap_pc,         \* where each append_message call is suspended
    ap_req,        \* the locals of each append_message call
    sm_handlers,   \* AgentStateMachine._handlers
    sm_last,       \* the last call of process: its arguments and the
                   \* observer calls it made
    bus,           \* the EventBus object: its fields
    bus_log,       \* every event given to emit, and what the last emit did
    te,            \* the ToolExecutor: its registry and the calls of execute
    llm,           \* the LLMClient: its settings and the call of chat
    probe,         \* the EnvironmentProbe: its cache and the calls of collect
    intent,        \* the IntentAnalyzer: the calls of analyze
    prompt,        \* the PromptBuilder: its sections and the call of build
    web,           \* the WebServer: its chat tasks and the session store
                   \* they work on
    fan            \* the emits in progress on the bus and what each
                   \* subscriber was given

loop_vars == <<pc, cancel_flags, messages, iteration, total_usage, response,
               meta, trace, result, llm_calls, cancel_at, idle_cancel>>
store_vars == <<rows, last_rowid>>
cm_vars == <<cm_in, cm_out, cm_done>>
ap_vars == <<ap_pc, ap_req>>
sm_vars == <<sm_handlers, sm_last>>
bus_vars == <<bus, bus_log>>

\* the components that are driven on their own
ext_vars == <<te, llm, probe, intent, prompt, web, fan>>

\* what a turn of the agent loop leaves alone
aux_vars == <<cm_vars, ap_vars, sm_vars, bus_vars, ext_vars>>

vars == <<loop_vars, state, store_vars, aux_vars>>

\* usage reported by one LLM call
UsageIn == 3
UsageOut == 2

NoResponse == [textlen |-> 0, tool_calls |-> <<>>]
NoResult == [how |-> "none", value |-> "none"]

Running(s) == pc[s] \notin {"idle", "returned", "raised"}

\* a turn that starts carries the cancel that was called before it
StartsAfter(c) == IF c = "pending" THEN "carried" ELSE "none"

\* a loop that never sees the flag
CancelRequestedNever(flags, s) == FALSE

\* _cancel_flags.get(sid, False)
CancelRequested(flags, s) == s \in DOMAIN flags /\ flags[s]
\* a flag that, once set, is never lowered
SetFlagSticky(flags, s, v) ==
    [t \in DOMAIN flags \cup {s} |->
        IF t = s THEN v \/ CancelRequested(flags, s) ELSE flags[t]]

\* _cancel_flags[sid] = v
SetFlag(flags, s, v) ==
    [t \in DOMAIN flags \cup {s} |-> IF t = s THEN v ELSE flags[t]]
\* _cancel_flags.pop(sid, None)
PopFlag(flags, s) == [t \in DOMAIN flags \ {s} |-> flags[t]]

\* an event on the bus: its type and the number its data carries
\* (iterations of turn.end, tool_calls of message.assistant, the tool id)
Ev(type, n) == [type |-> type, n |-> n]

\* the tasks that call SessionStore.append_message side by side
Callers == {"t1", "t2"}

\* EventBus.__init__
EventBus(history_size) ==
    [_handlers |-> << >>, _prefix_handlers |-> <<>>, _all_handlers |-> <<>>,
     _history |-> <<>>, _history_size |-> history_size]

NoAppend ==
    [session_id |-> "none", role |-> "none", text |-> "none",
     content |-> StrContent("none", 0), ordinal |-> -1, left |-> 0]
NoProcess ==
    [prev |-> "idle", event |-> "none", returned |-> "idle",
     observers |-> <<>>, calls |-> <<>>]
NoEmit ==
    [emitted |-> <<>>, registered |-> 0, at |-> 0, called |-> <<>>,
     returned |-> "none"]

\* the components as the agent loop's turn finds them: no list prepared, no
\* append in flight, no observer of the state machine, an EventBus with the
\* default history size
CMIdle == cm_in = <<>> /\ cm_out = <<>> /\ cm_done = FALSE
AppendIdle ==
    /\ ap_pc = [c \in Callers |-> "idle"]
    /\ ap_req = [c \in Callers |-> NoAppend]
SMIdle == sm_handlers = <<>> /\ sm_last = NoProcess
BusIdle == bus = EventBus(100) /\ bus_log = NoEmit

\* the components that are driven on their own, before any call
NoExecutor == [_tools |-> {}, calls |-> <<>>]
NoChat == [pc |-> "idle"]
NoProbe == [_cached |-> "none", calls |-> <<>>]
NoAnalyzer == [calls |-> <<>>]
NoBuilder == [_token_budget |-> 12000, _sections |-> <<>>, builds |-> <<>>]
\* a server with an empty database and no chat request
NoWeb ==
    [foreign_keys |-> FALSE, created |-> {}, sessions |-> {}, messages |-> <<>>,
     tasks |-> [t \in Callers |-> [pc |-> "idle", session_id |-> "none"]]]
\* no subscriber, no emit in progress, nothing delivered
NoFanout ==
    [_all_handlers |-> <<>>, closed |-> {},
     emitted |-> [s \in Sessions |-> 0],
     inflight |-> [s \in Sessions |-> <<>>],
     delivered |-> <<>>]

WebIdle == web = NoWeb /\ fan = NoFanout

ExtIdle ==
    /\ te = NoExecutor
    /\ llm = NoChat
    /\ probe = NoProbe
    /\ intent = NoAnalyzer
    /\ prompt = NoBuilder
    /\ WebIdle

LoopIdle ==
    /\ pc = [s \in Sessions |-> "idle"]
    /\ cancel_flags = << >>
    /\ messages = [s \in Sessions |-> <<>>]
    /\ iteration = [s \in Sessions |-> -1]
    /\ total_usage = [s \in Sessions |-> [input_tokens |-> 0, output_tokens |-> 0]]
    /\ response = [s \in Sessions |-> NoResponse]
    /\ meta = [s \in Sessions |->
                 [summary_message_id |-> 0, total_input_tokens |-> 0,
                  total_output_tokens |-> 0]]
    /\ trace = [s \in Sessions |-> <<>>]
    /\ result = [s \in Sessions |-> NoResult]
    /\ llm_calls = [s \in Sessions |-> 0]
    /\ cancel_at = [s \in Sessions |-> -1]
    /\ idle_cancel = [s \in Sessions |-> "none"]

StoreEmpty == rows = <<>> /\ last_rowid = 0

Init ==
    /\ LoopIdle
    /\ state = "idle"
    /\ StoreEmpty
    /\ CMIdle
    /\ AppendIdle
    /\ SMIdle
    /\ BusIdle
    /\ ExtIdle

(***************************************************************************)
(* AgentLoop (application/agent_loop.py)                                   *)
(***************************************************************************)
\* _finish_turn: the state after conversation_end and the two events
FinishState(st) == process(st, "state.conversation_end")

\* a turn.end that counts one iteration too few
FinishEventsOffByOne(iterations) ==
    << Ev("state.conversation_end", 0), Ev("turn.end", iterations - 1) >>

\* turn.end emitted before state.conversation_end
FinishEventsSwapped(iterations) ==
    << Ev("turn.end", iterations), Ev("state.conversation_end", 0) >>

FinishEvents(iterations) ==
    << Ev("state.conversation_end", 0), Ev("turn.end", iterations) >>

\* the except/finally of run: state.error, _finish_turn, re-raise, and the
\* flag popped.  st, msgs, tbl, last, m are the values at the raise.
Handler(s, exc, st, it, tr, msgs, tbl, last, m, usage) ==
    /\ state' = FinishState(process(st, "state.error"))
    /\ trace' = [trace EXCEPT ![s] =
                    tr \o <<Ev("state.error", 0)>> \o FinishEvents(it + 1)]
    /\ cancel_flags' = PopFlag(cancel_flags, s)
    /\ pc' = [pc EXCEPT ![s] = "raised"]
    /\ result' = [result EXCEPT ![s] = [how |-> "raised", value |-> exc]]
    /\ messages' = [messages EXCEPT ![s] = msgs]
    /\ iteration' = [iteration EXCEPT ![s] = it]
    /\ rows' = tbl
    /\ last_rowid' = last
    /\ meta' = m
    /\ total_usage' = [total_usage EXCEPT ![s] = usage]

\* run, lines 79-80: conversation_start is emitted and the state machine
\* advanced; the task then waits for the session store.  One turn runs at
\* a time.
Start(s) ==
    /\ UNCHANGED aux_vars
    /\ \A t \in Sessions : pc[t] = "idle"
    /\ trace' = [trace EXCEPT ![s] = <<Ev("state.conversation_start", 0)>>]
    /\ state' = process(state, "state.conversation_start")
    /\ pc' = [pc EXCEPT ![s] = "load"]
    /\ UNCHANGED <<cancel_flags, messages, iteration, total_usage, response,
                   rows, last_rowid, meta, result, llm_calls, cancel_at>>
    /\ idle_cancel' = [idle_cancel EXCEPT ![s] = StartsAfter(@)]

\* run, lines 83-85: get_session_meta and load_messages_from; a store
\* failure here is outside the try block and leaves run at once
LoadHistory(s, ok) ==
    /\ UNCHANGED aux_vars
    /\ pc[s] = "load"
    /\ IF ok
       THEN /\ messages' = [messages EXCEPT ![s] =
                   load_messages_from(rows, s, meta[s].summary_message_id)]
            /\ pc' = [pc EXCEPT ![s] = "append_user"]
            /\ UNCHANGED result
       ELSE /\ pc' = [pc EXCEPT ![s] = "raised"]
            /\ result' = [result EXCEPT ![s] = [how |-> "raised", value |-> "StoreError"]]
            /\ UNCHANGED messages
    /\ UNCHANGED <<state, cancel_flags, iteration, total_usage, response,
                   rows, last_rowid, meta, trace, llm_calls, cancel_at, idle_cancel>>

\* run, lines 88-98: the user message is appended in memory and to the
\* store, message.user and turn.start are emitted, the flag is reset
AppendUser(s, ok) ==
    /\ UNCHANGED aux_vars
    /\ pc[s] = "append_user"
    /\ messages' = [messages EXCEPT ![s] =
            Append(@, Message("user", StrContent("input", UserInputLen)))]
    /\ IF ok
       THEN /\ rows' = AppendRow(rows, last_rowid, s, "user",
                                 StrContent("input", UserInputLen))
            /\ last_rowid' = last_rowid + 1
            /\ trace' = [trace EXCEPT ![s] =
                    @ \o <<Ev("message.user", 0), Ev("turn.start", 0)>>]
            /\ total_usage' = [total_usage EXCEPT ![s] =
                    [input_tokens |-> 0, output_tokens |-> 0]]
            /\ cancel_flags' = SetFlag(cancel_flags, s, FALSE)
            /\ iteration' = [iteration EXCEPT ![s] = -1]
            /\ pc' = [pc EXCEPT ![s] = "loop_top"]
            /\ cancel_at' = [cancel_at EXCEPT ![s] = -1]
            /\ UNCHANGED result
       ELSE /\ pc' = [pc EXCEPT ![s] = "raised"]
            /\ result' = [result EXCEPT ![s] = [how |-> "raised", value |-> "StoreError"]]
            /\ UNCHANGED <<rows, last_rowid, trace, total_usage, cancel_flags,
                           iteration, cancel_at>>
    /\ UNCHANGED <<state, response, meta, llm_calls, idle_cancel>>

\* run, lines 101-112: the for loop takes the next iteration, the flag is
\* not set: state.thinking
LoopTop(s) ==
    /\ UNCHANGED aux_vars
    /\ pc[s] = "loop_top"
    /\ iteration[s] + 1 < max_iterations
    /\ ~CancelRequested(cancel_flags, s)
    /\ iteration' = [iteration EXCEPT ![s] = @ + 1]
    /\ state' = process(state, "state.thinking")
    /\ trace' = [trace EXCEPT ![s] = Append(@, Ev("state.thinking", 0))]
    /\ pc' = [pc EXCEPT ![s] = "summarize"]
    /\ UNCHANGED <<cancel_flags, messages, total_usage, response, rows,
                   last_rowid, meta, result, llm_calls, cancel_at, idle_cancel>>

\* run, lines 101-104 and 191-212: the loop is left, by break when the flag
\* is set or because range(max_iterations) is exhausted; the final text is
\* appended, the turn finished and the text returned
LoopExit(s, ok) ==
    /\ UNCHANGED aux_vars
    /\ pc[s] = "loop_top"
    /\ iteration[s] + 1 >= max_iterations \/ CancelRequested(cancel_flags, s)
    /\ LET it == IF iteration[s] + 1 < max_iterations
                 THEN iteration[s] + 1 ELSE iteration[s]
           final_text == IF CancelRequested(cancel_flags, s)
                         THEN StrContent("Request cancelled.", CancelledLen)
                         ELSE StrContent("I've reached the maximum number of steps.", MaxStepsLen)
           msgs == Append(messages[s], Message("assistant", final_text))
       IN  IF ok
           THEN /\ messages' = [messages EXCEPT ![s] = msgs]
                /\ iteration' = [iteration EXCEPT ![s] = it]
                /\ rows' = AppendRow(rows, last_rowid, s, "assistant", final_text)
                /\ last_rowid' = last_rowid + 1
                /\ state' = FinishState(state)
                /\ trace' = [trace EXCEPT ![s] = @ \o FinishEvents(it + 1)]
                /\ cancel_flags' = PopFlag(cancel_flags, s)
                /\ pc' = [pc EXCEPT ![s] = "returned"]
                /\ result' = [result EXCEPT ![s] =
                                [how |-> "returned", value |-> final_text.text]]
                /\ UNCHANGED <<meta, total_usage>>
           ELSE Handler(s, "StoreError", state, it, trace[s], msgs, rows,
                        last_rowid, meta, total_usage[s])
    /\ UNCHANGED <<response, llm_calls, cancel_at, idle_cancel>>

(***************************************************************************)
(* Summarizer (application/summarizer.py)                                  *)
(***************************************************************************)
SummarizerFires(msgs) ==
    /\ estimate_messages_tokens(msgs) > threshold
    /\ Len(msgs) > keep_recent + 2

SummaryContent == StrContent("[Previous conversation summary]", SummaryLen)

\* the list maybe_summarize returns when it fires
Summarized(msgs) ==
    <<Message("user", SummaryContent)>>
        \o SubSeq(msgs, Len(msgs) - keep_recent + 1, Len(msgs))

\* run, lines 115-118: maybe_summarize.  out is what happens to its calls:
\* "ok", its LLM call fails, its append fails, its metadata update fails.
\* The event it emits is EventType.CONTEXT_SUMMARIZED: evaluating a name the
\* enum does not have raises AttributeError.
Summarize(s, out) ==
    /\ UNCHANGED aux_vars
    /\ pc[s] = "summarize"
    /\ IF ~SummarizerFires(messages[s])
       THEN /\ out = "ok"
            /\ pc' = [pc EXCEPT ![s] = "llm"]
            /\ UNCHANGED <<state, cancel_flags, messages, iteration,
                           total_usage, rows, last_rowid, meta, trace, result>>
       ELSE LET new == Summarized(messages[s])
                tbl == AppendRow(rows, last_rowid, s, "user", SummaryContent)
                m == [meta EXCEPT ![s].summary_message_id = last_rowid + 1]
            IN  CASE out = "llm_fail" ->
                        Handler(s, "LLMError", state, iteration[s], trace[s],
                                messages[s], rows, last_rowid, meta, total_usage[s])
                  [] out = "append_fail" ->
                        Handler(s, "StoreError", state, iteration[s], trace[s],
                                messages[s], rows, last_rowid, meta, total_usage[s])
                  [] out = "meta_fail" ->
                        Handler(s, "StoreError", state, iteration[s], trace[s],
                                messages[s], tbl, last_rowid + 1, meta, total_usage[s])
                  [] OTHER ->
                        IF "context.summarized" \in EventType
                        THEN /\ messages' = [messages EXCEPT ![s] = new]
                             /\ rows' = tbl
                             /\ last_rowid' = last_rowid + 1
                             /\ meta' = m
                             /\ pc' = [pc EXCEPT ![s] = "llm"]
                             /\ trace' = [trace EXCEPT ![s] =
                                    Append(@, Ev("context.summarized",
                                                 Len(messages[s])))]
                             /\ UNCHANGED <<state, cancel_flags, iteration,
                                            total_usage, result>>
                        ELSE Handler(s, "AttributeError", state, iteration[s],
                                     trace[s], messages[s], tbl, last_rowid + 1,
                                     m, total_usage[s])
    /\ UNCHANGED <<response, llm_calls, cancel_at, idle_cancel>>

(***************************************************************************)
(* AgentLoop, the iteration body                                           *)
(***************************************************************************)
\* what the LLM answers to one call
LLMReplies ==
    { [kind |-> "raise", n |-> 0], [kind |-> "final", n |-> 0] }
        \cup { [kind |-> "tools", n |-> n] : n \in 1..MaxCalls }

\* tool ids are unique within the turn
ToolCallsOf(it, n) == [i \in 1..n |-> ToolCall(it * MaxCalls + i, "dispatch")]

\* run, lines 121-141: prepare_messages, llm.chat, usage
CallLLM(s, r) ==
    /\ UNCHANGED aux_vars
    /\ pc[s] = "llm"
    /\ llm_calls' = [llm_calls EXCEPT ![s] = @ + 1]
    /\ UNCHANGED <<cancel_at, idle_cancel>>
    /\ LET msgs == prepare_messages(messages[s])
       IN  IF r.kind = "raise"
           THEN /\ Handler(s, "LLMError", state, iteration[s], trace[s], msgs,
                           rows, last_rowid, meta, total_usage[s])
                /\ UNCHANGED response
           ELSE /\ messages' = [messages EXCEPT ![s] = msgs]
                /\ total_usage' = [total_usage EXCEPT ![s] =
                        [input_tokens |-> @.input_tokens + UsageIn,
                         output_tokens |-> @.output_tokens + UsageOut]]
                /\ response' = [response EXCEPT ![s] =
                        IF r.kind = "final"
                        THEN [textlen |-> AnswerLen, tool_calls |-> <<>>]
                        ELSE [textlen |-> 0,
                              tool_calls |-> ToolCallsOf(iteration[s], r.n)]]
                /\ pc' = [pc EXCEPT ![s] =
                        IF r.kind = "final" THEN "final" ELSE "tools"]
                /\ UNCHANGED <<state, cancel_flags, iteration, rows,
                               last_rowid, meta, trace, result>>

\* run, lines 167-189: the final answer
FinalAnswer(s, okAppend, okMeta) ==
    /\ UNCHANGED aux_vars
    /\ pc[s] = "final"
    /\ LET text == StrContent("answer", response[s].textlen)
           st == process(state, "state.responding")
           msgs == Append(messages[s], Message("assistant", text))
           tbl == AppendRow(rows, last_rowid, s, "assistant", text)
           tr == Append(trace[s], Ev("message.assistant", 0))
           m == [meta EXCEPT ![s].total_input_tokens = total_usage[s].input_tokens,
                             ![s].total_output_tokens = total_usage[s].output_tokens]
       IN  IF ~okAppend
           THEN Handler(s, "StoreError", st, iteration[s], trace[s], msgs,
                        rows, last_rowid, meta, total_usage[s])
           ELSE IF ~okMeta
           THEN Handler(s, "StoreError", st, iteration[s], tr, msgs,
                        tbl, last_rowid + 1, meta, total_usage[s])
           ELSE /\ messages' = [messages EXCEPT ![s] = msgs]
                /\ rows' = tbl
                /\ last_rowid' = last_rowid + 1
                /\ meta' = m
                /\ state' = FinishState(st)
                /\ trace' = [trace EXCEPT ![s] =
                                tr \o FinishEvents(iteration[s] + 1)]
                /\ cancel_flags' = PopFlag(cancel_flags, s)
                /\ pc' = [pc EXCEPT ![s] = "returned"]
                /\ result' = [result EXCEPT ![s] =
                                [how |-> "returned", value |-> text.text]]
                /\ UNCHANGED <<iteration, total_usage>>
    /\ UNCHANGED <<response, llm_calls, cancel_at, idle_cancel>>

\* _execute_tools, phase 1: one state.tool_executing per call
ExecutingEvents(tcs) ==
    [i \in 1..Len(tcs) |-> Ev("state.tool_executing", tcs[i].id)]

\* _execute_tools, phase 3: the events of one outcome
OutcomeEvents(tc, o) ==
    (IF o.is_error THEN <<Ev("state.tool_failed", tc.id)>>
     ELSE <<Ev("state.tool_completed", tc.id)>>
              \o (IF o.workflow THEN <<Ev("workflow.submitted", tc.id)>> ELSE <<>>))
    \o <<Ev("message.tool_result", tc.id)>>

RECURSIVE ResultEvents(_, _)
ResultEvents(tcs, outs) ==
    IF tcs = <<>> THEN <<>>
    ELSE OutcomeEvents(Head(tcs), Head(outs)) \o ResultEvents(Tail(tcs), Tail(outs))

\* results collected in the reverse order of the calls
ToolResultsReversed(tcs, outs) ==
    [i \in 1..Len(tcs) |->
        build_tool_result_block(tcs[Len(tcs) + 1 - i].id,
                                outs[Len(tcs) + 1 - i].len,
                                outs[Len(tcs) + 1 - i].is_error)]

\* _execute_tools: the tool_result blocks, in the order of the calls
ToolResults(tcs, outs) ==
    [i \in 1..Len(tcs) |->
        build_tool_result_block(tcs[i].id, outs[i].len, outs[i].is_error)]

\* the state machine over a batch
BatchState(st, outs) ==
    LET st1 == process(process(st, "state.tool_planned"), "state.tool_executing")
    IN  IF \E i \in 1..Len(outs) : outs[i].is_error
        THEN process(st1, "state.tool_failed")
        ELSE process(st1, "state.tool_completed")

\* the tools the LLM calls in a turn
BatchKinds == {"ok", "raises"}

\* run, lines 141-165, with _execute_tools: the assistant message is
\* appended, the batch executed, the carrier appended
ToolBatch(s, okAssistant, kinds, okCarrier) ==
    /\ UNCHANGED aux_vars
    /\ pc[s] = "tools"
    /\ LET tcs == response[s].tool_calls
           asst == build_assistant_message(response[s])
           msgs1 == Append(messages[s], asst)
           tbl1 == AppendRow(rows, last_rowid, s, "assistant", asst.content)
           outs == [i \in 1..Len(tcs) |-> execute(kinds[i])]
           tr == trace[s] \o <<Ev("message.assistant", Len(tcs))>>
                     \o ExecutingEvents(tcs) \o ResultEvents(tcs, outs)
           st == BatchState(state, outs)
           carrier == build_tool_results_message(ToolResults(tcs, outs))
           msgs2 == Append(msgs1, carrier)
           tbl2 == AppendRow(tbl1, last_rowid + 1, s, "user", carrier.content)
       IN  /\ DOMAIN kinds = 1..Len(tcs)
           /\ IF ~okAssistant
              THEN Handler(s, "StoreError", state, iteration[s], trace[s],
                           msgs1, rows, last_rowid, meta, total_usage[s])
              ELSE IF ~okCarrier
              THEN Handler(s, "StoreError", st, iteration[s], tr, msgs2,
                           tbl1, last_rowid + 1, meta, total_usage[s])
              ELSE /\ messages' = [messages EXCEPT ![s] = msgs2]
                   /\ rows' = tbl2
                   /\ last_rowid' = last_rowid + 2
                   /\ state' = st
                   /\ trace' = [trace EXCEPT ![s] = tr]
                   /\ pc' = [pc EXCEPT ![s] = "loop_top"]
                   /\ UNCHANGED <<cancel_flags, iteration, total_usage, meta,
                                  result>>
    /\ UNCHANGED <<response, llm_calls, cancel_at, idle_cancel>>

\* cancel(session_id); it runs while the run task is suspended at an await
\* (there is none between the flag reset and the first flag check) or while
\* no run is active
Cancel(s) ==
    /\ UNCHANGED aux_vars
    /\ ~(pc[s] = "loop_top" /\ iteration[s] = -1)
    /\ cancel_flags' = SetFlag(cancel_flags, s, TRUE)
    /\ cancel_at' = [cancel_at EXCEPT ![s] =
            IF ~Running(s) \/ CancelRequested(cancel_flags, s) THEN @
            ELSE IF pc[s] \in {"load", "append_user"} THEN 0
            ELSE iteration[s] + 1]
    /\ idle_cancel' = [idle_cancel EXCEPT ![s] =
            IF Running(s) THEN @ ELSE "pending"]
    /\ UNCHANGED <<pc, state, messages, iteration, total_usage, response,
                   rows, last_rowid, meta, trace, result, llm_calls>>

Next ==
    \E s \in Sessions :
        \/ Start(s)
        \/ \E ok \in BOOLEAN : LoadHistory(s, ok)
        \/ \E ok \in BOOLEAN : AppendUser(s, ok)
        \/ LoopTop(s)
        \/ \E ok \in BOOLEAN : LoopExit(s, ok)
        \/ \E out \in {"ok", "llm_fail", "append_fail", "meta_fail"} : Summarize(s, out)
        \/ \E r \in LLMReplies : CallLLM(s, r)
        \/ \E okA, okM \in BOOLEAN : FinalAnswer(s, okA, okM)
        \/ \E okA, okC \in BOOLEAN :
              \E n \in 1..MaxCalls : \E kinds \in [1..n -> BatchKinds] :
                  ToolBatch(s, okA, kinds, okC)
        \/ Cancel(s)

Spec == Init /\ [][Next]_vars

TypeOK ==
    /\ state \in AgentState
    /\ \A s \in Sessions : iteration[s] \in -1..(max_iterations - 1)
    /\ DOMAIN cancel_flags \subseteq Sessions

(***************************************************************************)
(* Turns of different sessions side by side on the one AgentLoop           *)
(* (WebServer creates a task per chat message: web.py 455-507)             *)
(***************************************************************************)
\* run, lines 79-80, for a session whose turn starts while the turn of
\* another session may be under way
StartBeside(s) ==
    /\ UNCHANGED aux_vars
    /\ pc[s] = "idle"
    /\ trace' = [trace EXCEPT ![s] = <<Ev("state.conversation_start", 0)>>]
    /\ state' = process(state, "state.conversation_start")
    /\ pc' = [pc EXCEPT ![s] = "load"]
    /\ UNCHANGED <<cancel_flags, messages, iteration, total_usage, response,
                   rows, last_rowid, meta, result, llm_calls, cancel_at>>
    /\ idle_cancel' = [idle_cancel EXCEPT ![s] = StartsAfter(@)]

\* the turns run with a store, an LLM and tools that do not fail; the LLM
\* asks for one tool at a time
NextBeside ==
    \E s \in Sessions :
        \/ StartBeside(s)
        \/ LoadHistory(s, TRUE)
        \/ AppendUser(s, TRUE)
        \/ LoopTop(s)
        \/ LoopExit(s, TRUE)
        \/ Summarize(s, "ok")
        \/ \E r \in {[kind |-> "final", n |-> 0], [kind |-> "tools", n |-> 1]} :
              CallLLM(s, r)
        \/ FinalAnswer(s, TRUE, TRUE)
        \/ ToolBatch(s, TRUE, <<"ok">>, TRUE)

SpecBeside == Init /\ [][NextBeside]_vars

(***************************************************************************)
(* Turns of one session, one after the other                               *)
(***************************************************************************)
MaxTurns == 2

\* the turns of a session that got as far as storing their user message
TurnsRun(s) ==
    Cardinality({i \in 1..Len(rows) :
                    /\ rows[i].session_id = s /\ rows[i].role = "user"
                    /\ rows[i].content = Encode(StrContent("input", UserInputLen))})

\* run, lines 79-80, called again for a session whose last turn is over
RunAgain(s) ==
    /\ UNCHANGED aux_vars
    /\ pc[s] \in {"returned", "raised"}
    /\ TurnsRun(s) < MaxTurns
    /\ trace' = [trace EXCEPT ![s] = <<Ev("state.conversation_start", 0)>>]
    /\ state' = process(state, "state.conversation_start")
    /\ pc' = [pc EXCEPT ![s] = "load"]
    /\ result' = [result EXCEPT ![s] = NoResult]
    /\ UNCHANGED <<cancel_flags, messages, iteration, total_usage, response,
                   rows, last_rowid, meta, llm_calls, cancel_at>>
    /\ idle_cancel' = [idle_cancel EXCEPT ![s] = StartsAfter(@)]

\* the turns run with a store that does not fail and tools that return
\* errors; the LLM asks for one tool at a time
NextTurns ==
    \/ Start("s1")
    \/ RunAgain("s1")
    \/ LoadHistory("s1", TRUE)
    \/ AppendUser("s1", TRUE)
    \/ LoopTop("s1")
    \/ LoopExit("s1", TRUE)
    \/ Summarize("s1", "ok")
    \/ \E r \in {[kind |-> "final", n |-> 0], [kind |-> "tools", n |-> 1]} :
          CallLLM("s1", r)
    \/ FinalAnswer("s1", TRUE, TRUE)
    \/ ToolBatch("s1", TRUE, <<"raises">>, TRUE)
    \/ Cancel("s1")

SpecTurns == Init /\ [][NextTurns]_vars

(***************************************************************************)
(* ContextManager.prepare_messages on the histories a session can hold     *)
(***************************************************************************)
\* longest history handed to prepare_messages
MaxHistoryLen == 9
\* characters of a large tool result kept in a history
BigResultLen == 400000

\* the messages a history is made of: the user's input, an assistant
\* message with one tool call, its tool-result carrier with a small or a
\* large result, and an assistant answer
UserMsg == Message("user", StrContent("hi", UserInputLen))
ToolUseMsg ==
    build_assistant_message([textlen |-> 0, tool_calls |-> <<ToolCall(1, "dispatch")>>])
CarrierMsg(n) ==
    build_tool_results_message(<<build_tool_result_block(1, n, FALSE)>>)
AnswerMsg == build_assistant_message([textlen |-> AnswerLen, tool_calls |-> <<>>])

\* the messages that can follow a history: a turn starts with the user's
\* message, a tool call is followed by its results, results and user
\* messages by the next assistant message
Follows(h) ==
    IF h = <<>> \/ h[Len(h)] = AnswerMsg THEN {UserMsg}
    ELSE IF h[Len(h)] = ToolUseMsg THEN {CarrierMsg(ToolOkLen), CarrierMsg(BigResultLen)}
    ELSE {ToolUseMsg, AnswerMsg}

RECURSIVE Histories(_)
Histories(n) ==
    IF n = 0 THEN {<<>>}
    ELSE LET shorter == Histories(n - 1)
         IN  shorter \cup
             UNION {{Append(h, m) : m \in Follows(h)} :
                        h \in {g \in shorter : Len(g) = n - 1}}

InitCM ==
    /\ LoopIdle /\ state = "idle" /\ StoreEmpty
    /\ AppendIdle /\ SMIdle /\ BusIdle /\ ExtIdle
    /\ cm_in \in Histories(MaxHistoryLen)
    /\ cm_out = <<>>
    /\ cm_done = FALSE

\* the call the loop makes before each LLM call (agent_loop.py 121-122)
Prepare ==
    /\ ~cm_done
    /\ cm_out' = prepare_messages(cm_in)
    /\ cm_done' = TRUE
    /\ UNCHANGED <<cm_in, loop_vars, state, store_vars, ap_vars, sm_vars, bus_vars, ext_vars>>

NextCM == Prepare

SpecCM == InitCM /\ [][NextCM]_vars

\* C14: for every message list M, prepare_messages(M) returns a list whose
\* estimated token count is at most history_budget, or whose length is at
\* most 2.
C14_BudgetSafety ==
    cm_done =>
        \/ estimate_messages_tokens(cm_out) <= history_budget
        \/ Len(cm_out) <= 2

(***************************************************************************)
(* SessionStore.append_message called by tasks that run side by side       *)
(* (WebServer starts one task per chat message, on one shared connection)  *)
(***************************************************************************)
\* calls of append_message each task makes
MaxAppends == 2

InitStore ==
    /\ LoopIdle /\ state = "idle" /\ StoreEmpty
    /\ CMIdle /\ SMIdle /\ BusIdle /\ ExtIdle
    /\ ap_pc = [c \in Callers |-> "idle"]
    /\ ap_req = [c \in Callers |-> [NoAppend EXCEPT !.left = MaxAppends]]

\* a task calls append_message(sid, "user", text)
AppendCall(c, sid) ==
    /\ ap_pc[c] = "idle"
    /\ ap_req[c].left > 0
    /\ ap_pc' = [ap_pc EXCEPT ![c] = "select"]
    /\ ap_req' = [ap_req EXCEPT ![c] =
                    [session_id |-> sid, role |-> "user", text |-> c,
                     content |-> StrContent(c, @.left - 1),
                     ordinal |-> -1, left |-> @.left - 1]]
    /\ UNCHANGED <<store_vars, loop_vars, state, cm_vars, sm_vars, bus_vars, ext_vars>>

\* await db.execute(SELECT COALESCE(MAX(ordinal), -1) + 1 ...)
AppendSelect(c) ==
    /\ ap_pc[c] = "select"
    /\ ap_req' = [ap_req EXCEPT ![c].ordinal = NextOrdinal(rows, ap_req[c].session_id)]
    /\ ap_pc' = [ap_pc EXCEPT ![c] = "insert"]
    /\ UNCHANGED <<store_vars, loop_vars, state, cm_vars, sm_vars, bus_vars, ext_vars>>

\* await db.execute(INSERT INTO messages ...) with the ordinal read before
AppendInsert(c) ==
    /\ ap_pc[c] = "insert"
    /\ rows' = Append(rows,
                  [id |-> last_rowid + 1, session_id |-> ap_req[c].session_id,
                   role |-> ap_req[c].role,
                   content |-> Encode(ap_req[c].content),
                   ordinal |-> ap_req[c].ordinal])
    /\ last_rowid' = last_rowid + 1
    /\ ap_pc' = [ap_pc EXCEPT ![c] = "commit"]
    /\ UNCHANGED <<ap_req, loop_vars, state, cm_vars, sm_vars, bus_vars, ext_vars>>

\* the UPDATE of sessions.updated_at, the commit and the return
AppendCommit(c) ==
    /\ ap_pc[c] = "commit"
    /\ ap_pc' = [ap_pc EXCEPT ![c] = "idle"]
    /\ UNCHANGED <<ap_req, store_vars, loop_vars, state, cm_vars, sm_vars, bus_vars, ext_vars>>

NextStore ==
    \E c \in Callers :
        \/ \E sid \in Sessions : AppendCall(c, sid)
        \/ AppendSelect(c)
        \/ AppendInsert(c)
        \/ AppendCommit(c)

SpecStore == InitStore /\ [][NextStore]_vars

\* C15: for any session and any interleaving of append_message calls on
\* it, the ordinals of its messages are pairwise distinct and strictly
\* increasing in append order, and load_messages returns the messages in
\* that order.
C15_OrdinalsIncrease ==
    \A sid \in Sessions :
        LET mine == SessionRows(rows, sid)
        IN  /\ \A i, j \in 1..Len(mine) : i < j => mine[i].ordinal < mine[j].ordinal
            /\ load_messages(rows, sid)
                   = [i \in 1..Len(mine) |-> Message(mine[i].role, Decode(mine[i].content))]

(***************************************************************************)
(* SessionStore.append_message and the loads, one call at a time           *)
(***************************************************************************)
MaxRows == 3

\* the contents append_message is given: a text, a text that reads as
\* JSON (a number, say), and lists of content blocks
AppendContents ==
    {StrContent("hello", 5), [StrContent("42", 2) EXCEPT !.js = TRUE],
     BlockContent(<<>>), BlockContent(<<TextBlock(5)>>)}

\* await store.append_message(sid, role, content), lines 147-171, with no
\* other task in between; ap_req["t1"] keeps the arguments of the latest call
AppendMessage(sid, role, content) ==
    /\ Len(rows) < MaxRows
    /\ rows' = AppendRow(rows, last_rowid, sid, role, content)
    /\ last_rowid' = last_rowid + 1
    /\ ap_req' = [ap_req EXCEPT !["t1"] =
                    [NoAppend EXCEPT !.session_id = sid, !.role = role,
                                     !.content = content,
                                     !.ordinal = NextOrdinal(rows, sid)]]
    /\ UNCHANGED <<ap_pc, loop_vars, state, cm_vars, sm_vars, bus_vars, ext_vars>>

NextAppend ==
    \E sid \in Sessions, role \in {"user", "assistant"}, content \in AppendContents :
        AppendMessage(sid, role, content)

SpecAppend == Init /\ [][NextAppend]_vars

\* C30: for every content value that append_message accepts (any plain
\* string, and any list of content blocks), load_messages and
\* load_messages_from return a message whose role and content are equal to
\* the role and content that were appended.
C30_ContentRoundTrip ==
    LET req == ap_req["t1"]
        all == load_messages(rows, req.session_id)
        from == load_messages_from(rows, req.session_id, last_rowid)
    IN  req.session_id # "none" =>
           /\ all[Len(all)] = Message(req.role, req.content)
           /\ from = <<Message(req.role, req.content)>>

(***************************************************************************)
(* AgentStateMachine with observers (application/state_machine.py)         *)
(***************************************************************************)
\* observers registered with on_state_change
MaxObservers == 2

InitSM ==
    /\ LoopIdle /\ StoreEmpty /\ CMIdle /\ AppendIdle /\ BusIdle /\ ExtIdle
    /\ state = "idle"
    /\ sm_handlers = <<>>
    /\ sm_last = NoProcess

\* on_state_change(handler); the handler is one that raises or one that
\* returns
on_state_change(raises) ==
    /\ Len(sm_handlers) < MaxObservers
    /\ sm_handlers' = Append(sm_handlers,
                             [id |-> Len(sm_handlers) + 1, raises |-> raises])
    /\ UNCHANGED <<state, sm_last, loop_vars, store_vars, cm_vars, ap_vars, bus_vars, ext_vars>>

\* a _notify that gives up at the first handler that raises
_notifyUntilRaise(handlers, prev, current) ==
    LET bad == {i \in 1..Len(handlers) : handlers[i].raises}
        n == IF bad = {} THEN Len(handlers)
             ELSE CHOOSE i \in bad : \A j \in bad : i <= j
    IN  [i \in 1..n |-> [handler |-> handlers[i].id, prev |-> prev, current |-> current]]

\* _notify: the calls it makes; an exception of a handler is logged and
\* the next handler is called
_notify(handlers, prev, current) ==
    [i \in 1..Len(handlers) |->
        [handler |-> handlers[i].id, prev |-> prev, current |-> current]]

\* AgentStateMachine.process(event) as a call of its own
Process(ev) ==
    LET new == process(state, ev)
    IN  /\ state' = new
        /\ sm_last' = [prev |-> state, event |-> ev, returned |-> new,
                       observers |-> sm_handlers,
                       calls |-> IF new # state
                                 THEN _notify(sm_handlers, state, new)
                                 ELSE <<>>]
        /\ UNCHANGED <<sm_handlers, loop_vars, store_vars, cm_vars, ap_vars, bus_vars, ext_vars>>

NextSM ==
    \/ \E raises \in BOOLEAN : on_state_change(raises)
    \/ \E ev \in EventType : Process(ev)

SpecSM == InitSM /\ [][NextSM]_vars

(***************************************************************************)
(* EventBus (infrastructure/event_bus.py)                                  *)
(***************************************************************************)
\* handlers registered on one bus, events emitted on it, and the largest
\* history_size it is built with
MaxHandlers == 3
MaxEmits == 2
MaxHistorySize == 1

\* the event types emitted on the bus, and their values as characters
BusEventTypes == {"state.error", "turn.end"}
Chars(t) ==
    IF t = "state.error"
    THEN <<"s", "t", "a", "t", "e", ".", "e", "r", "r", "o", "r">>
    ELSE <<"t", "u", "r", "n", ".", "e", "n", "d">>

\* the prefixes handlers subscribe to: "state." and "st"
Prefixes == {<<"s", "t", "a", "t", "e", ".">>, <<"s", "t">>}

\* str.startswith
startswith(str, prefix) ==
    /\ Len(prefix) <= Len(str)
    /\ SubSeq(str, 1, Len(prefix)) = prefix

\* list[-n:] of a list with more than n elements, n >= 0: the last n
\* elements, and the whole list for n = 0 (-0 is 0, and list[0:] is a copy)
LastSlice(list, n) ==
    IF n = 0 THEN list ELSE SubSeq(list, Len(list) - n + 1, Len(list))

InitBus ==
    /\ LoopIdle /\ state = "idle" /\ StoreEmpty
    /\ CMIdle /\ AppendIdle /\ SMIdle /\ ExtIdle
    /\ \E n \in 0..MaxHistorySize : bus = EventBus(n)
    /\ bus_log = NoEmit

\* a new handler: it is known by the rank of its registration
NewHandler(raises) == [id |-> bus_log.registered + 1, raises |-> raises]

Registered ==
    /\ bus_log.registered < MaxHandlers
    /\ bus_log' = [bus_log EXCEPT !.registered = @ + 1]
    /\ UNCHANGED <<loop_vars, state, store_vars, cm_vars, ap_vars, sm_vars, ext_vars>>

\* on(event_type, handler): self._handlers[event_type].append(handler)
on(event_type, raises) ==
    /\ Registered
    /\ bus' = [bus EXCEPT !._handlers =
                 IF event_type \in DOMAIN @
                 THEN [@ EXCEPT ![event_type] = Append(@, NewHandler(raises))]
                 ELSE @ @@ (event_type :> <<NewHandler(raises)>>)]

\* on_prefix(prefix, handler): self._prefix_handlers[prefix].append(handler);
\* a dict keeps its keys in the order they were first inserted
on_prefix(prefix, raises) ==
    /\ Registered
    /\ bus' = [bus EXCEPT !._prefix_handlers =
                 IF \E i \in 1..Len(@) : @[i].prefix = prefix
                 THEN [i \in 1..Len(@) |->
                          IF @[i].prefix = prefix
                          THEN [@[i] EXCEPT !.handlers = Append(@, NewHandler(raises))]
                          ELSE @[i]]
                 ELSE Append(@, [prefix |-> prefix,
                                 handlers |-> <<NewHandler(raises)>>])]

\* on_all(handler)
on_all(raises) ==
    /\ Registered
    /\ bus' = [bus EXCEPT !._all_handlers = Append(@, NewHandler(raises))]

RECURSIVE Concat(_)
Concat(lists) ==
    IF lists = <<>> THEN <<>> ELSE Head(lists) \o Concat(Tail(lists))

\* emit, lines 61-73: the handlers collected for an event
Collect(b, event) ==
    (IF event.type \in DOMAIN b._handlers THEN b._handlers[event.type] ELSE <<>>)
    \o Concat([i \in 1..Len(b._prefix_handlers) |->
                  IF startswith(Chars(event.type), b._prefix_handlers[i].prefix)
                  THEN b._prefix_handlers[i].handlers
                  ELSE <<>>])
    \o b._all_handlers

\* an execution of the handlers that lets the first exception through
ExecuteUntilRaise(handlers) ==
    LET bad == {i \in 1..Len(handlers) : handlers[i].raises}
        n == IF bad = {} THEN Len(handlers)
             ELSE CHOOSE i \in bad : \A j \in bad : i <= j
    IN  [called |-> [i \in 1..n |-> handlers[i].id],
         returned |-> IF bad = {} THEN "ok" ELSE "raised"]

\* emit, lines 75-84: each handler is called inside try/except Exception
Execute(handlers) ==
    [called |-> [i \in 1..Len(handlers) |-> handlers[i].id], returned |-> "ok"]

\* EventBus.emit(event)
emit(type) ==
    LET event == [type |-> type, n |-> Len(bus_log.emitted) + 1]
        appended == Append(bus._history, event)
        history == IF Len(appended) > bus._history_size
                   THEN LastSlice(appended, bus._history_size)
                   ELSE appended
        done == Execute(Collect(bus, event))
    IN  /\ Len(bus_log.emitted) < MaxEmits
        /\ bus' = [bus EXCEPT !._history = history]
        /\ bus_log' = [bus_log EXCEPT !.emitted = Append(@, event),
                                      !.at = bus_log.registered,
                                      !.called = done.called,
                                      !.returned = done.returned]
        /\ UNCHANGED <<loop_vars, state, store_vars, cm_vars, ap_vars, sm_vars, ext_vars>>

\* get_history()
get_history(b) == b._history

NextBus ==
    \/ \E t \in BusEventTypes, raises \in BOOLEAN : on(t, raises)
    \/ \E p \in Prefixes, raises \in BOOLEAN : on_prefix(p, raises)
    \/ \E raises \in BOOLEAN : on_all(raises)
    \/ \E t \in BusEventTypes : emit(t)

SpecBus == InitBus /\ [][NextBus]_vars

(***************************************************************************)
(* ToolExecutor.execute called by name (application/tool_executor.py)      *)
(***************************************************************************)
\* calls of execute on one executor
MaxExecutes == 3

\* the names the LLM asks for; the executor registers some of them
ToolNames == {"dispatch", "ghost"}

\* every module-level variable but the one of this component
te_others ==
    <<loop_vars, state, store_vars, cm_vars, ap_vars, sm_vars, bus_vars,
      llm, probe, intent, prompt, web, fan>>

\* ToolExecutor(tools)
InitTool ==
    /\ LoopIdle /\ state = "idle" /\ StoreEmpty
    /\ CMIdle /\ AppendIdle /\ SMIdle /\ BusIdle
    /\ llm = NoChat /\ probe = NoProbe /\ intent = NoAnalyzer /\ prompt = NoBuilder
    /\ WebIdle
    /\ \E tools \in SUBSET ToolNames : te = [_tools |-> tools, calls |-> <<>>]

\* execute(tool_name, params), where what is what tool.run does when it
\* is awaited: self._tools.get(tool_name) decides whether it is
ExecuteTool(tool_name, what) ==
    /\ Len(te.calls) < MaxExecutes
    /\ LET kind == IF tool_name \in te._tools THEN what ELSE "unknown"
       IN  te' = [te EXCEPT !.calls =
                     Append(@, [tool_name |-> tool_name,
                                what |-> IF tool_name \in te._tools THEN what ELSE "none",
                                result |-> execute(kind)])]
    /\ UNCHANGED te_others

NextTool ==
    \E tool_name \in ToolNames, what \in ToolKinds \ {"unknown"} :
        ExecuteTool(tool_name, what)

SpecTool == InitTool /\ [][NextTool]_vars

(***************************************************************************)
(* LLMClient.chat and its retries (infrastructure/clients/llm_client.py)   *)
(***************************************************************************)
MaxRetries == 7
retry_base_delay_ms == 2000
retry_max_delay_ms == 60000

\* the Retry-After header of a transient error: absent, not a number, or a
\* number of seconds
RetryAfterHeaders ==
    {[kind |-> "absent"], [kind |-> "text"],
     [kind |-> "seconds", seconds |-> 5], [kind |-> "seconds", seconds |-> 120]}

\* random.uniform(0.8, 1.2), in hundredths
Jitters == {80, 100, 120}

RECURSIVE Pow2(_)
Pow2(n) == IF n = 0 THEN 1 ELSE 2 * Pow2(n - 1)
Min(a, b) == IF a <= b THEN a ELSE b

\* _calc_delay without the min
_calc_delayUncapped(attempt, retry_after, jitter) ==
    IF retry_after.kind = "seconds"
    THEN retry_after.seconds * 1000
    ELSE (retry_base_delay_ms * Pow2(attempt - 1) * jitter) \div 100

\* _calc_delay, lines 129-142
_calc_delay(attempt, retry_after, jitter) ==
    IF retry_after.kind = "seconds"
    THEN retry_after.seconds * 1000
    ELSE Min((retry_base_delay_ms * Pow2(attempt - 1) * jitter) \div 100,
             retry_max_delay_ms)

llm_others ==
    <<loop_vars, state, store_vars, cm_vars, ap_vars, sm_vars, bus_vars,
      te, probe, intent, prompt, web, fan>>

\* LLMClient(..., event_bus, max_retries), before chat is called; delay_ms
\* and retry_after are those of the latest retry, delay_ms = -1 before it
InitLLM ==
    /\ LoopIdle /\ state = "idle" /\ StoreEmpty
    /\ CMIdle /\ AppendIdle /\ SMIdle /\ BusIdle
    /\ te = NoExecutor /\ probe = NoProbe /\ intent = NoAnalyzer /\ prompt = NoBuilder
    /\ WebIdle
    /\ \E k \in 1..MaxRetries, has_bus \in BOOLEAN :
          llm = [pc |-> "idle", max_retries |-> k, event_bus |-> has_bus,
                 attempt |-> 0, outcomes |-> <<>>,
                 retry_after |-> [kind |-> "absent"], delay_ms |-> -1,
                 retries |-> <<>>, raised |-> "none"]

\* chat, lines 102-103: the first pass of the for loop
chat ==
    /\ llm.pc = "idle"
    /\ llm' = [llm EXCEPT !.pc = "attempt", !.attempt = 1]
    /\ UNCHANGED llm_others

\* one pass of the for loop, lines 104-125: outcome is what _do_chat does,
\* retry_after the header of the error it raises
Attempt(outcome, retry_after, jitter) ==
    /\ llm.pc = "attempt"
    /\ LET tried == [llm EXCEPT !.outcomes = Append(@, outcome)]
       IN  llm' =
             CASE outcome = "ok" -> [tried EXCEPT !.pc = "returned"]
               [] outcome = "fatal" ->
                     [tried EXCEPT !.pc = "raised", !.raised = "fatal"]
               [] outcome = "transient" /\ llm.attempt = llm.max_retries ->
                     [tried EXCEPT !.pc = "raised", !.raised = "transient"]
               [] OTHER ->
                     LET delayed ==
                           [tried EXCEPT
                              !.retry_after = retry_after,
                              !.delay_ms =
                                 _calc_delay(llm.attempt, retry_after, jitter)]
                     IN  IF ~llm.event_bus
                         THEN [delayed EXCEPT !.attempt = @ + 1]
                         ELSE IF "llm.retry" \in EventType
                         THEN [delayed EXCEPT !.attempt = @ + 1,
                                              !.retries = Append(@, llm.attempt)]
                         ELSE [delayed EXCEPT !.pc = "raised",
                                              !.raised = "AttributeError"]
    /\ UNCHANGED llm_others

NextLLM ==
    \/ chat
    \/ \E outcome \in {"ok", "transient", "fatal"},
          retry_after \in RetryAfterHeaders, jitter \in Jitters :
          Attempt(outcome, retry_after, jitter)

SpecLLM == InitLLM /\ [][NextLLM]_vars

(***************************************************************************)
(* EnvironmentProbe.collect (application/environment_probe.py)             *)
(***************************************************************************)
MaxCollects == 2

\* EnvironmentSnapshot(), domain/models/context.py 36-50: collected holds
\* the names of the sub-collectors whose values were stored
EnvironmentSnapshot ==
    [connection_ok |-> FALSE, collected |-> {}, errors |-> <<>>, raised |-> FALSE]

\* what the ComfyUI client does for health_check, and for the three calls
\* behind the sub-collectors
HealthOutcomes == {"true", "false", "raises"}
ApiOutcomes == {"ok", "raises"}

\* a sub-collector without its try/except
_collect_unguarded(name, outcome, snap) ==
    IF snap.raised THEN snap
    ELSE IF outcome = "raises"
    THEN [snap EXCEPT !.raised = TRUE]
    ELSE [snap EXCEPT !.collected = @ \cup {name}]

\* _collect_system_stats, _collect_models, _collect_queue, lines 73-99
_collect(name, outcome, snap) ==
    IF outcome = "raises"
    THEN [snap EXCEPT !.errors = Append(@, name)]
    ELSE [snap EXCEPT !.collected = @ \cup {name}]

\* collect, lines 37-55
collect(health, stats, models, queue, is_built) ==
    LET snap0 == EnvironmentSnapshot
        snap1 == CASE health = "raises" ->
                        [snap0 EXCEPT !.errors = Append(@, "health_check")]
                   [] health = "true" -> [snap0 EXCEPT !.connection_ok = TRUE]
                   [] OTHER -> snap0
        snap2 == IF snap1.connection_ok
                 THEN _collect("get_queue", queue,
                         _collect("list_models", models,
                            _collect("system_stats", stats, snap1)))
                 ELSE snap1
    IN  IF is_built /\ ~snap2.raised
        THEN [snap2 EXCEPT !.collected = @ \cup {"node_index"}]
        ELSE snap2

probe_others ==
    <<loop_vars, state, store_vars, cm_vars, ap_vars, sm_vars, bus_vars,
      te, llm, intent, prompt, web, fan>>

\* EnvironmentProbe(client, node_index)
InitProbe ==
    /\ LoopIdle /\ state = "idle" /\ StoreEmpty
    /\ CMIdle /\ AppendIdle /\ SMIdle /\ BusIdle
    /\ te = NoExecutor /\ llm = NoChat /\ intent = NoAnalyzer /\ prompt = NoBuilder
    /\ WebIdle
    /\ probe = NoProbe

\* await probe.collect(): a call that raises stores nothing in _cached
CollectSnapshot(health, stats, models, queue, is_built) ==
    /\ Len(probe.calls) < MaxCollects
    /\ LET snap == collect(health, stats, models, queue, is_built)
       IN  probe' = [_cached |-> IF snap.raised THEN probe._cached ELSE snap,
                     calls |-> Append(probe.calls,
                                  [health |-> health, stats |-> stats,
                                   models |-> models, queue |-> queue,
                                   snap |-> snap])]
    /\ UNCHANGED probe_others

NextProbe ==
    \E health \in HealthOutcomes, stats \in ApiOutcomes, models \in ApiOutcomes,
       queue \in ApiOutcomes, is_built \in BOOLEAN :
        CollectSnapshot(health, stats, models, queue, is_built)

SpecProbe == InitProbe /\ [][NextProbe]_vars

(***************************************************************************)
(* IntentAnalyzer.analyze (application/intent_analyzer.py)                 *)
(***************************************************************************)
MaxAnalyzes == 1

\* SectionCategory, domain/models/context.py 13-23, in declaration order
SectionCategory ==
    <<"identity", "knowledge", "experience", "environment",
      "workflow_strategy", "tool_reference", "rules", "error_handling">>

\* _ALL_SECTION_NAMES, line 21
_ALL_SECTION_NAMES ==
    SelectSeq(SectionCategory, LAMBDA c : c # "identity")

\* IntentResult, domain/models/context.py 80-87
IntentResult(topics, environment_needed, suggested_sections) ==
    [topics |-> topics, environment_needed |-> environment_needed,
     suggested_sections |-> suggested_sections, knowledge_tags |-> <<>>]

\* default_result, lines 78-85
default_result == IntentResult(<<"general">>, TRUE, _ALL_SECTION_NAMES)

\* The values json.loads can give.  Of an object the three keys the parser
\* reads: topics absent, a list or a number; env_needed absent, a boolean
\* or a string; sections absent or a list.
JsonTopics ==
    {[kind |-> "absent"], [kind |-> "number"],
     [kind |-> "list", items |-> <<>>],
     [kind |-> "list", items |-> <<"txt2img", "sdxl", "lora", "upscale">>]}
JsonEnvNeeded ==
    {[kind |-> "absent"], [kind |-> "bool", value |-> TRUE],
     [kind |-> "bool", value |-> FALSE], [kind |-> "string"]}
JsonSections ==
    {[kind |-> "absent"], [kind |-> "list", items |-> <<>>],
     [kind |-> "list", items |-> <<"rules">>],
     [kind |-> "list", items |-> <<"environment", "rules">>]}
JsonValues ==
    {[json |-> "array"], [json |-> "string"], [json |-> "number"], [json |-> "null"]}
    \cup {[json |-> "object", topics |-> t, env_needed |-> e, sections |-> s] :
             t \in JsonTopics, e \in JsonEnvNeeded, s \in JsonSections}

\* A response text as a sequence of tokens: a code fence ```, a newline, a
\* space, a word that is no JSON, or the text of a JSON value
Fence == [tok |-> "fence"]
Newline == [tok |-> "nl"]
Space == [tok |-> "sp"]
Word == [tok |-> "word"]
Json(v) == [tok |-> "json", value |-> v]

ResponseTexts ==
    {<<>>, <<Word>>, <<Fence>>, <<Word, Space, Json([json |-> "null"])>>}
    \cup {<<Json(v)>> : v \in JsonValues}
    \cup {<<Space, Json(v), Newline>> : v \in JsonValues}
    \cup {<<Fence, Word, Newline, Json(v), Newline, Fence>> : v \in JsonValues}
    \cup {<<Fence, Newline, Json(v), Newline>> : v \in JsonValues}
    \cup {<<Fence, Json(v), Fence>> : v \in JsonValues}

IsSpace(x) == x.tok \in {"nl", "sp"}
RECURSIVE lstrip(_)
lstrip(t) == IF t # <<>> /\ IsSpace(Head(t)) THEN lstrip(Tail(t)) ELSE t
RECURSIVE rstrip(_)
rstrip(t) ==
    IF t # <<>> /\ IsSpace(t[Len(t)]) THEN rstrip(SubSeq(t, 1, Len(t) - 1)) ELSE t
\* str.strip
strip(t) == rstrip(lstrip(t))

\* text.split("\n", 1)[-1]
AfterFirstNewline(t) ==
    LET at == {i \in 1..Len(t) : t[i] = Newline}
    IN  IF at = {} THEN t
        ELSE SubSeq(t, (CHOOSE i \in at : \A j \in at : i <= j) + 1, Len(t))

\* json.loads: white space around the value is allowed
json_loads(t) ==
    LET s == strip(t)
    IN  IF Len(s) = 1 /\ s[1].tok = "json" THEN s[1].value ELSE [json |-> "invalid"]

\* bool(data.get("env_needed", True)): a string from the LLM is not empty
EnvNeeded(e) ==
    CASE e.kind = "absent" -> TRUE
      [] e.kind = "bool" -> e.value
      [] OTHER -> TRUE

\* _parse_response, lines 57-76: gives the result, or the exception that
\* leaves it
_parse_response(response_text) ==
    LET text0 == strip(response_text)
        text1 == AfterFirstNewline(text0)
        text2 == IF text1 # <<>> /\ text1[Len(text1)] = Fence
                 THEN SubSeq(text1, 1, Len(text1) - 1) ELSE text1
        text == IF text0 # <<>> /\ text0[1] = Fence THEN strip(text2) ELSE text0
        data == json_loads(text)
    IN  CASE data.json = "invalid" ->
                [raised |-> "none", result |-> default_result]
          [] data.json # "object" ->
                [raised |-> "AttributeError", result |-> default_result]
          [] data.topics.kind = "number" ->
                [raised |-> "none", result |-> default_result]
          [] OTHER ->
                [raised |-> "none",
                 result |->
                    IntentResult(
                       IF data.topics.kind = "absent" THEN <<>>
                       ELSE SubSeq(data.topics.items, 1, Min(3, Len(data.topics.items))),
                       EnvNeeded(data.env_needed),
                       IF data.sections.kind = "absent" THEN _ALL_SECTION_NAMES
                       ELSE data.sections.items)]

\* analyze without its try/except
analyzeUnguarded(llm_raises, response_text) ==
    IF llm_raises
    THEN [raised |-> "Exception", result |-> default_result]
    ELSE _parse_response(response_text)

\* analyze, lines 41-52
analyze(llm_raises, response_text) ==
    IF llm_raises \/ _parse_response(response_text).raised # "none"
    THEN [raised |-> "none", result |-> default_result]
    ELSE _parse_response(response_text)

intent_others ==
    <<loop_vars, state, store_vars, cm_vars, ap_vars, sm_vars, bus_vars,
      te, llm, probe, prompt, web, fan>>

\* IntentAnalyzer(llm)
InitIntent ==
    /\ LoopIdle /\ state = "idle" /\ StoreEmpty
    /\ CMIdle /\ AppendIdle /\ SMIdle /\ BusIdle
    /\ te = NoExecutor /\ llm = NoChat /\ probe = NoProbe /\ prompt = NoBuilder
    /\ WebIdle
    /\ intent = NoAnalyzer

\* await analyzer.analyze(user_input), where the LLM raises or answers
\* response_text
Analyze(llm_raises, response_text) ==
    /\ Len(intent.calls) < MaxAnalyzes
    /\ LET out == analyze(llm_raises, response_text)
       IN  intent' = [calls |-> Append(intent.calls,
                         [llm_raises |-> llm_raises,
                          response_text |-> IF llm_raises THEN <<>> ELSE response_text,
                          raised |-> out.raised, result |-> out.result])]
    /\ UNCHANGED intent_others

NextIntent ==
    \E llm_raises \in BOOLEAN, response_text \in ResponseTexts :
        Analyze(llm_raises, response_text)

SpecIntent == InitIntent /\ [][NextIntent]_vars

(***************************************************************************)
(* PromptBuilder.build (application/prompt_builder.py)                     *)
(***************************************************************************)
MaxSections == 3
TightBudget == 8
EnvTextTokens == 4
CanvasTokens == 2

\* ContextSection, domain/models/context.py 92-99; the name stands for the
\* content too
ContextSection(name, category, priority, token_estimate) ==
    [name |-> name, category |-> category, priority |-> priority,
     token_estimate |-> token_estimate]

\* the sections an application registers
SectionPool ==
    {ContextSection("identity", "identity", 0, 3),
     ContextSection("knowledge_sdxl", "knowledge", 0, 3),
     ContextSection("lessons", "experience", 0, 2),
     ContextSection("gpu_notes", "environment", 2, 1),
     ContextSection("workflow_strategy", "workflow_strategy", 0, 4),
     ContextSection("tool_reference", "tool_reference", 0, 5),
     ContextSection("rules", "rules", 0, 2)}

_ALWAYS_INCLUDE == {"identity", "workflow_strategy", "rules"}
_KNOWLEDGE_INCLUDE == {"knowledge"}

\* tag in s.name.lower(), for the tags and names of this model
NameContains(name, tag) ==
    \/ name = "knowledge_sdxl" /\ tag \in {"sdxl", "knowledge"}
    \/ name = tag

\* the intent results build is given: none, or one of these
IntentResults ==
    {[IntentResult(<<"general">>, e, s) EXCEPT !.knowledge_tags = k] :
        e \in BOOLEAN,
        s \in {<<>>, <<"canvas">>, <<"environment", "tool_reference">>,
               _ALL_SECTION_NAMES},
        k \in {<<>>, <<"flux">>}}

\* canvas_summary: empty, white space only, or a summary
CanvasSummaries == {"", "  ", "3 nodes"}

Range(q) == {q[i] : i \in 1..Len(q)}
Names(q) == {q[i].name : i \in 1..Len(q)}
Without(q, name) == SelectSeq(q, LAMBDA s : s.name # name)

\* lines 97-103
KeepSuggested(sections, intent_result) ==
    SelectSeq(sections, LAMBDA s :
        \/ s.category \in _ALWAYS_INCLUDE
        \/ s.category \in _KNOWLEDGE_INCLUDE
        \/ s.name \in Range(intent_result.suggested_sections)
        \/ s.category \in Range(intent_result.suggested_sections))

\* lines 105-110
KeepTagged(sections, intent_result) ==
    IF intent_result.knowledge_tags = <<>> THEN sections
    ELSE SelectSeq(sections, LAMBDA s :
            \/ s.category # "knowledge"
            \/ \E tag \in Range(intent_result.knowledge_tags) :
                  NameContains(s.name, tag))

\* lines 113-120
RECURSIVE ReAdd(_, _)
ReAdd(sections, all_experience) ==
    IF all_experience = <<>> THEN sections
    ELSE ReAdd(IF Head(all_experience).name \in Names(sections)
               THEN sections
               ELSE Append(sections, Head(all_experience)),
               Tail(all_experience))

\* build without lines 122-126
DropEnvironmentNever(sections, intent_result) == sections

\* lines 122-126
DropEnvironment(sections, intent_result) ==
    IF ~intent_result.environment_needed
    THEN SelectSeq(sections, LAMBDA s : s.category # "environment")
    ELSE sections

\* cat_index, line 129
cat_index(category) ==
    CHOOSE i \in 1..Len(SectionCategory) : SectionCategory[i] = category

KeyLE(a, b) ==
    \/ cat_index(a.category) < cat_index(b.category)
    \/ cat_index(a.category) = cat_index(b.category) /\ a.priority <= b.priority

\* the place of x in a sorted list: behind everything that is not greater
RECURSIVE Insert(_, _)
Insert(x, sorted) ==
    IF sorted = <<>> THEN <<x>>
    ELSE IF KeyLE(Head(sorted), x)
    THEN <<Head(sorted)>> \o Insert(x, Tail(sorted))
    ELSE <<x>> \o sorted

RECURSIVE InsertAll(_)
InsertAll(sections) ==
    IF sections = <<>> THEN <<>>
    ELSE Insert(sections[Len(sections)],
                InsertAll(SubSeq(sections, 1, Len(sections) - 1)))

\* a sort that leaves the sections as they come
sortNever(sections) == sections

\* sections.sort(key=...), line 130: stable
sort(sections) == InsertAll(sections)

RECURSIVE TotalTokens(_)
TotalTokens(sections) ==
    IF sections = <<>> THEN 0
    ELSE Head(sections).token_estimate + TotalTokens(Tail(sections))

\* the loop of _apply_budget, lines 154-166
RECURSIVE KeepWithin(_, _, _)
KeepWithin(sections, running, budget) ==
    IF sections = <<>> THEN <<>>
    ELSE IF running + Head(sections).token_estimate > budget
    THEN KeepWithin(Tail(sections), running, budget)
    ELSE <<Head(sections)>>
         \o KeepWithin(Tail(sections), running + Head(sections).token_estimate, budget)

\* _apply_budget, lines 145-166
_apply_budget(sections, budget) ==
    IF TotalTokens(sections) <= budget THEN sections
    ELSE KeepWithin(sections, 0, budget)

\* build, lines 65-143: intent_result and environment are <<>> for None;
\* the result is the list of sections whose contents are joined, and the
\* list that went into _apply_budget
build(p, intent_result, environment, canvas_summary) ==
    LET registered == p._sections
        with_env ==
            IF environment # <<>>
            THEN Append(Without(registered, "environment"),
                        ContextSection("environment", "environment", 0, EnvTextTokens))
            ELSE registered
        with_canvas ==
            IF canvas_summary # "" /\ canvas_summary # "  "
            THEN Append(Without(with_env, "canvas"),
                        ContextSection("canvas", "environment", 1, CanvasTokens))
            ELSE with_env
        filtered ==
            IF intent_result # <<>>
            THEN DropEnvironment(
                    ReAdd(KeepTagged(KeepSuggested(with_canvas, intent_result[1]),
                                     intent_result[1]),
                          SelectSeq(registered, LAMBDA s : s.category = "experience")),
                    intent_result[1])
            ELSE with_canvas
        sorted == sort(filtered)
        kept == _apply_budget(sorted, p._token_budget)
    IN  [sorted |-> sorted, sections |-> kept,
         text |-> IF kept = <<>> THEN <<"You are a ComfyUI assistant.">>
                  ELSE [i \in 1..Len(kept) |-> kept[i].name]]

prompt_others ==
    <<loop_vars, state, store_vars, cm_vars, ap_vars, sm_vars, bus_vars,
      te, llm, probe, intent, web, fan>>

\* PromptBuilder(token_budget), lines 40-42
InitPrompt ==
    /\ LoopIdle /\ state = "idle" /\ StoreEmpty
    /\ CMIdle /\ AppendIdle /\ SMIdle /\ BusIdle
    /\ te = NoExecutor /\ llm = NoChat /\ probe = NoProbe /\ intent = NoAnalyzer
    /\ WebIdle
    /\ \E token_budget \in {0, TightBudget} :
          prompt = [NoBuilder EXCEPT
                      !._token_budget = IF token_budget > 0 THEN token_budget ELSE 12000]

\* register_section, lines 44-48: a dict keeps the place of a name that is
\* registered again.  Sections are registered before the first build.
register_section(section) ==
    /\ prompt.builds = <<>>
    /\ Len(prompt._sections) < MaxSections
    /\ prompt' =
          [prompt EXCEPT !._sections =
              IF section.name \in Names(@)
              THEN [i \in 1..Len(@) |-> IF @[i].name = section.name THEN section ELSE @[i]]
              ELSE Append(@, section)]
    /\ UNCHANGED prompt_others

\* build leaves the builder as it found it: one build of every behaviour
\* shows what any build does
Build(intent_result, environment, canvas_summary) ==
    /\ prompt.builds = <<>>
    /\ prompt' =
          [prompt EXCEPT !.builds =
              Append(@, [intent_result |-> intent_result,
                         environment |-> environment,
                         canvas_summary |-> canvas_summary,
                         out |-> build(prompt, intent_result, environment,
                                       canvas_summary)])]
    /\ UNCHANGED prompt_others

NextPrompt ==
    \/ \E section \in SectionPool : register_section(section)
    \/ \E intent_result \in {<<>>} \cup {<<r>> : r \in IntentResults},
          environment \in {<<>>, <<EnvironmentSnapshot>>},
          canvas_summary \in CanvasSummaries :
          Build(intent_result, environment, canvas_summary)

SpecPrompt == InitPrompt /\ [][NextPrompt]_vars

(***************************************************************************)
(* Events of the loops fanned out to WebSocket subscribers                 *)
(* (event_bus.py 54-84, agent_loop.py 377-390, web.py 417-450)             *)
(***************************************************************************)
MaxSubscribers == 2
MaxEvents == 2

fan_others ==
    <<loop_vars, state, store_vars, cm_vars, ap_vars, sm_vars, bus_vars,
      te, llm, probe, intent, prompt, web>>

InitFanout ==
    /\ LoopIdle /\ state = "idle" /\ StoreEmpty
    /\ CMIdle /\ AppendIdle /\ SMIdle /\ BusIdle
    /\ te = NoExecutor /\ llm = NoChat /\ probe = NoProbe /\ intent = NoAnalyzer
    /\ prompt = NoBuilder /\ web = NoWeb
    /\ fan = NoFanout

\* handle_chat_ws, lines 419-435: a client connects and its forward_event is
\* subscribed with on_all; connections are numbered as they come
Connect ==
    /\ Len(fan.delivered) < MaxSubscribers
    /\ fan' = [fan EXCEPT !._all_handlers = Append(@, Len(fan.delivered) + 1),
                          !.delivered = Append(@, <<>>)]
    /\ UNCHANGED fan_others

\* handle_chat_ws, lines 448-450: the socket is closed and the handler
\* unsubscribed; one client leaves in a run
Disconnect(h) ==
    /\ fan.closed = {}
    /\ h \in {fan._all_handlers[i] : i \in 1..Len(fan._all_handlers)}
    /\ fan' = [fan EXCEPT !._all_handlers = SelectSeq(@, LAMBDA x : x # h),
                          !.closed = @ \cup {h}]
    /\ UNCHANGED fan_others

\* a loop that goes on to its next event without waiting for emit
EmitReturnedAlways(s) == TRUE

\* _emit, lines 384-386: the loop awaits event_bus.emit, so its next event
\* is emitted when the emit before it has returned
EmitReturned(s) == fan.inflight[s] = <<>>

\* forward_event, lines 419-429, called by emit at line 80: unless its
\* socket is closed the handler sends the event, and emit awaits it
Forward(delivered, handlers, s, n) ==
    LET h == Head(handlers)
    IN  IF h \in fan.closed THEN delivered
        ELSE [delivered EXCEPT ![h] = Append(@, [session_id |-> s, n |-> n])]

\* emit, lines 57-80: the n-th event of the loop of session s; the handlers
\* are collected into a list of its own and the first of them is called
EmitEvent(s) ==
    /\ EmitReturned(s)
    /\ fan.emitted[s] < MaxEvents
    /\ LET n == fan.emitted[s] + 1
       IN  fan' = [fan EXCEPT
                     !.emitted[s] = n,
                     !.inflight[s] =
                        IF fan._all_handlers = <<>> THEN @
                        ELSE Append(@, [n |-> n, handlers |-> fan._all_handlers]),
                     !.delivered =
                        IF fan._all_handlers = <<>> THEN @
                        ELSE Forward(@, fan._all_handlers, s, n)]
    /\ UNCHANGED fan_others

\* emit, lines 78-84: the awaited handler returns (or raises, which emit
\* logs); emit calls the next handler, and returns after the last
HandlerReturns(s, i) ==
    /\ i \in 1..Len(fan.inflight[s])
    /\ LET e == fan.inflight[s][i]
           rest == Tail(e.handlers)
       IN  fan' = [fan EXCEPT
                     !.inflight[s] =
                        IF rest = <<>>
                        THEN SubSeq(@, 1, i - 1) \o SubSeq(@, i + 1, Len(@))
                        ELSE [@ EXCEPT ![i] = [n |-> e.n, handlers |-> rest]],
                     !.delivered =
                        IF rest = <<>> THEN @ ELSE Forward(@, rest, s, e.n)]
    /\ UNCHANGED fan_others

NextFanout ==
    \/ Connect
    \/ \E h \in 1..MaxSubscribers : Disconnect(h)
    \/ \E s \in Sessions :
          \/ EmitEvent(s)
          \/ \E i \in 1..MaxEvents : HandlerReturns(s, i)

SpecFanout == InitFanout /\ [][NextFanout]_vars

(***************************************************************************)
(* Truncation of tool output, character by character                       *)
(* (application/tool_executor.py 67-77, domain/tools/base.py 77-86)        *)
(***************************************************************************)
MaxTextLen == 40
MaxLimit == 6

\* a text of n characters with a newline at every k-th place
TextOf(n, k) ==
    [i \in 1..n |-> IF i % k = 0 THEN "\n" ELSE IF i % 2 = 0 THEN "a" ELSE "b"]

\* str(n) for the numbers below 100
DigitString(n) ==
    LET d(i) == <<"0", "1", "2", "3", "4", "5", "6", "7", "8", "9">>[i + 1]
    IN  IF n < 10 THEN <<d(n)>> ELSE <<d(n \div 10), d(n % 10)>>

\* "\n\n... [{mid_lines} lines truncated] ...\n\n"
TruncationMarker(mid_lines) ==
    <<"\n", "\n", ".", ".", ".", " ", "[">>
        \o DigitString(mid_lines)
        \o <<" ", "l", "i", "n", "e", "s", " ",
             "t", "r", "u", "n", "c", "a", "t", "e", "d", "]", " ",
             ".", ".", ".", "\n", "\n">>

\* text[:half]
FirstChars(text, half) == SubSeq(text, 1, half)

\* text[-half:]: the whole text when half is 0, since -0 is 0
LastChars(text, half) ==
    IF half = 0 THEN text ELSE SubSeq(text, Len(text) - half + 1, Len(text))

\* text[half:-half]: empty when half is 0
MiddleChars(text, half) ==
    IF half = 0 THEN <<>> ELSE SubSeq(text, half + 1, Len(text) - half)

\* truncate_output(text, max_len), and _truncate(text, max_len) alike
truncate_output(text, max_len) ==
    IF Len(text) <= max_len THEN text
    ELSE LET half == max_len \div 2
             mid == MiddleChars(text, half)
             mid_lines == Cardinality({i \in 1..Len(mid) : mid[i] = "\n"})
         IN  FirstChars(text, half) \o TruncationMarker(mid_lines)
                 \o LastChars(text, half)

truncate_others ==
    <<loop_vars, state, store_vars, cm_vars, ap_vars, sm_vars, bus_vars,
      llm, probe, intent, prompt, web, fan>>

\* a text and a limit to truncate it to
InitTruncate ==
    /\ LoopIdle /\ state = "idle" /\ StoreEmpty
    /\ CMIdle /\ AppendIdle /\ SMIdle /\ BusIdle
    /\ llm = NoChat /\ probe = NoProbe /\ intent = NoAnalyzer /\ prompt = NoBuilder
    /\ WebIdle
    /\ \E n \in 0..MaxTextLen, k \in {2, 3}, max_len \in 0..MaxLimit :
          te = [_tools |-> {}, calls |-> <<>>,
                text |-> TextOf(n, k), max_len |-> max_len]

Truncate ==
    /\ te.calls = <<>>
    /\ te' = [te EXCEPT !.calls = <<truncate_output(te.text, te.max_len)>>]
    /\ UNCHANGED truncate_others

NextTruncate == Truncate

SpecTruncate == InitTruncate /\ [][NextTruncate]_vars

(***************************************************************************)
(* Chat requests and session requests of the web server                    *)
(* (interface/web.py, infrastructure/persistence/session_store.py)         *)
(***************************************************************************)
MaxStored == 3

web_others ==
    <<loop_vars, state, store_vars, cm_vars, ap_vars, sm_vars, bus_vars,
      te, llm, probe, intent, prompt, fan>>

\* the database as _get_db opens it: the schema declares the foreign key of
\* messages.session_id, no PRAGMA foreign_keys is issued, so whether SQLite
\* enforces it is the default the library was built with
InitWeb ==
    /\ LoopIdle /\ state = "idle" /\ StoreEmpty
    /\ CMIdle /\ AppendIdle /\ SMIdle /\ BusIdle
    /\ te = NoExecutor /\ llm = NoChat /\ probe = NoProbe /\ intent = NoAnalyzer
    /\ prompt = NoBuilder /\ fan = NoFanout
    /\ \E fk \in BOOLEAN : web = [NoWeb EXCEPT !.foreign_keys = fk]

SessionExists(w, sid) == \E r \in w.sessions : r.id = sid

\* the INSERT of append_message, lines 162-165: refused only by an
\* enforced foreign key
InsertAllowed(w, sid) == w.foreign_keys => SessionExists(w, sid)

InsertMessage(w, sid, role, by) ==
    [w EXCEPT !.messages = Append(@, [session_id |-> sid, role |-> role, by |-> by])]

\* create_session, lines 84-93, and create_child_session, lines 219-229:
\* a row with a fresh uuid; parent is "none" for a top-level session
CreateSession(sid, parent) ==
    /\ sid \notin web.created
    /\ web.foreign_keys /\ parent # "none" => SessionExists(web, parent)
    /\ web' = [web EXCEPT !.created = @ \cup {sid},
                          !.sessions = @ \cup {[id |-> sid, parent_session_id |-> parent]}]
    /\ UNCHANGED web_others

\* handle_delete_session, lines 270-273, with delete_session, lines
\* 103-107: the messages of the session, then its row
DeleteSession(sid) ==
    /\ web' = [web EXCEPT
                 !.messages = SelectSeq(@, LAMBDA m : m.session_id # sid),
                 !.sessions = {r \in @ : r.id # sid}]
    /\ UNCHANGED web_others

\* append_message(sid, ...) called on the store
StoreAppend(sid) ==
    /\ Len(web.messages) < MaxStored
    /\ InsertAllowed(web, sid)
    /\ web' = InsertMessage(web, sid, "user", "none")
    /\ UNCHANGED web_others

\* handle_chat, lines 285-300, and _handle_ws_message, lines 461-477: a chat
\* request with the session_id the client sent; the turn runs in a task of
\* its own, whatever other turns are running
ChatRequest(t, sid) ==
    /\ web.tasks[t].pc = "idle"
    /\ web' = [web EXCEPT !.tasks[t] = [pc |-> "load", session_id |-> sid]]
    /\ UNCHANGED web_others

\* run, lines 83-85: get_session_meta gives {} for an unknown id, and
\* load_messages_from an empty list
TurnLoads(t) ==
    /\ web.tasks[t].pc = "load"
    /\ web' = [web EXCEPT !.tasks[t].pc = "append_user"]
    /\ UNCHANGED web_others

\* run, lines 88-89 and 169-172: the user message, and later the answer, are
\* appended to the store
TurnAppends(t) ==
    /\ web.tasks[t].pc \in {"append_user", "append_assistant"}
    /\ Len(web.messages) < MaxStored
    /\ LET sid == web.tasks[t].session_id
           user == web.tasks[t].pc = "append_user"
       IN  IF InsertAllowed(web, sid)
           THEN web' = [InsertMessage(web, sid, IF user THEN "user" ELSE "assistant", t)
                           EXCEPT !.tasks[t].pc = IF user THEN "llm" ELSE "returned"]
           ELSE web' = [web EXCEPT !.tasks[t].pc = "raised"]
    /\ UNCHANGED web_others

\* run, line 130: the LLM call the turn was waiting for returns its answer
LLMAnswers(t) ==
    /\ web.tasks[t].pc = "llm"
    /\ web' = [web EXCEPT !.tasks[t].pc = "append_assistant"]
    /\ UNCHANGED web_others

NextWeb ==
    \/ \E sid \in Sessions : CreateSession(sid, "none")
    \/ \E sid \in Sessions, parent \in Sessions : CreateSession(sid, parent)
    \/ \E sid \in Sessions : DeleteSession(sid)
    \/ \E sid \in Sessions : StoreAppend(sid)
    \/ \E t \in Callers :
          \/ \E sid \in Sessions : ChatRequest(t, sid)
          \/ TurnLoads(t)
          \/ TurnAppends(t)
          \/ LLMAnswers(t)

SpecWeb == InitWeb /\ [][NextWeb]_vars

(***************************************************************************)
(* Properties                                                              *)
(***************************************************************************)
Exited(s) == pc[s] \in {"returned", "raised"}

CountType(tr, type) == Cardinality({i \in 1..Len(tr) : tr[i].type = type})
Types(tr) == {tr[i].type : i \in 1..Len(tr)}
LastEvent(s) == trace[s][Len(trace[s])]

\* the stored messages of a session, as load_messages returns them
Stored(s) == load_messages(rows, s)

HasToolUse(m) ==
    /\ m.role = "assistant"
    /\ m.content.kind = "blocks"
    /\ \E j \in 1..Len(m.content.blocks) : m.content.blocks[j].type = "tool_use"

ToolUseIds(m) ==
    LET uses == SelectSeq(m.content.blocks, LAMBDA b : b.type = "tool_use")
    IN  [j \in 1..Len(uses) |-> uses[j].id]

\* m is a carrier whose tool_result blocks answer the ids, in order
IsCarrierFor(m, ids) ==
    /\ m.role = "user"
    /\ m.content.kind = "blocks"
    /\ \A j \in 1..Len(m.content.blocks) : m.content.blocks[j].type = "tool_result"
    /\ [j \in 1..Len(m.content.blocks) |-> m.content.blocks[j].tool_use_id] = ids

Paired(msgs) ==
    \A i \in 1..Len(msgs) :
        HasToolUse(msgs[i]) =>
            /\ i < Len(msgs)
            /\ IsCarrierFor(msgs[i + 1], ToolUseIds(msgs[i]))
            /\ \A j, k \in 1..Len(ToolUseIds(msgs[i])) :
                  ToolUseIds(msgs[i])[j] = ToolUseIds(msgs[i])[k] => j = k

LastStoredIs(s, text) ==
    /\ Stored(s) # <<>>
    /\ Stored(s)[Len(Stored(s))].role = "assistant"
    /\ Stored(s)[Len(Stored(s))].content.kind = "str"
    /\ Stored(s)[Len(Stored(s))].content.text = text

CancelledText == "Request cancelled."
MaxStepsText == "I've reached the maximum number of steps."

\* C1: every run that emitted state.conversation_start has, once it has
\* returned or raised, emitted exactly one turn.end for its session.
C1_OneTurnEnd ==
    \A s \in Sessions :
        Exited(s) /\ "state.conversation_start" \in Types(trace[s])
            => CountType(trace[s], "turn.end") = 1

\* C2: after a turn has returned without cancellation, every stored
\* assistant message with tool_use blocks is immediately followed by a
\* user-role carrier whose tool_result blocks carry exactly the tool_use ids,
\* each once, in the same order.
C2_ToolResultPairing ==
    \A s \in Sessions :
        pc[s] = "returned" /\ result[s].value # CancelledText
            => Paired(Stored(s))

C2_Witness ==
    \E s \in Sessions :
        /\ pc[s] = "returned"
        /\ result[s].value = "answer"
        /\ \E i \in 1..Len(Stored(s)) :
              HasToolUse(Stored(s)[i]) /\ Len(ToolUseIds(Stored(s)[i])) = 2

\* C3 (as claimed): a cancel invoked while a turn is in its loop makes the
\* turn end with "Request cancelled." as return value and as last stored
\* assistant message.
C3_CancelAlwaysWins ==
    \A s \in Sessions :
        pc[s] = "returned" /\ cancel_at[s] >= 1
            => /\ result[s].value = CancelledText
               /\ LastStoredIs(s, CancelledText)

\* C3 (amended): when the flag is set at the time the loop checks it (cancel
\* arrived during an iteration that ended with tool calls), run makes no
\* further LLM call and either returns "Request cancelled.", which is then
\* the last stored assistant message, or raises because the final append
\* failed.
C3_CancelObserved ==
    [][ \A s \in Sessions :
          ( /\ pc[s] = "loop_top"
            /\ s \in DOMAIN cancel_flags
            /\ cancel_flags[s]
            /\ pc'[s] # "loop_top" )
          => /\ llm_calls'[s] = llm_calls[s]
             /\ \/ /\ pc'[s] = "returned"
                   /\ result'[s] = [how |-> "returned", value |-> CancelledText]
                   /\ LastStoredIs(s, CancelledText)'
                \/ /\ pc'[s] = "raised"
                   /\ result'[s].value = "StoreError" ]_vars

C3_Witness ==
    \E s \in Sessions :
        /\ pc[s] = "returned"
        /\ cancel_at[s] >= 1
        /\ result[s].value = CancelledText
        /\ LastStoredIs(s, CancelledText)

\* C4: when cancel is invoked during iteration k and that iteration ends
\* with tool calls, the loop makes no LLM call in iteration k+1 and turn.end
\* reports iterations = k.
C4_CancelIterations ==
    \A s \in Sessions :
        pc[s] = "returned" /\ result[s].value = CancelledText /\ cancel_at[s] >= 1
            => /\ llm_calls[s] = cancel_at[s]
               /\ LastEvent(s) = Ev("turn.end", cancel_at[s])

\* C5: at the moment run exits, by return or by raise, the cancel-flag map
\* has no entry for the session.
C5_FlagClearedOnExit ==
    [][ \A s \in Sessions :
          ~Exited(s) /\ Exited(s)' => s \notin DOMAIN cancel_flags' ]_vars

\* C6: a run in which every LLM call was answered with tool calls and no
\* cancel took effect makes exactly max_iterations LLM calls, stores
\* max_iterations assistant/carrier pairs followed by the reached-maximum
\* text, returns that text, and reports iterations = max_iterations.
C6_IterationExhaustion ==
    \A s \in Sessions :
        ( /\ pc[s] = "returned"
          /\ cancel_at[s] = -1
          /\ CountType(trace[s], "message.assistant") = llm_calls[s]
          /\ \A i \in 1..Len(trace[s]) :
                trace[s][i].type = "message.assistant" => trace[s][i].n > 0 )
        => /\ llm_calls[s] = max_iterations
           /\ result[s].value = MaxStepsText
           /\ Cardinality({i \in 1..Len(Stored(s)) : HasToolUse(Stored(s)[i])})
                 = max_iterations
           /\ Paired(Stored(s))
           /\ LastStoredIs(s, MaxStepsText)
           /\ LastEvent(s) = Ev("turn.end", max_iterations)

C6_Witness ==
    \E s \in Sessions :
        /\ pc[s] = "returned"
        /\ cancel_at[s] = -1
        /\ result[s].value = MaxStepsText
        /\ llm_calls[s] = max_iterations

\* C7: a turn whose first LLM response has no tool calls puts all of
\* state.conversation_start, message.user, turn.start, state.thinking,
\* message.assistant, state.responding, state.conversation_end and turn.end
\* on the bus, turn.end last with iterations = 1, and a fresh session then
\* stores exactly [user input, assistant text].
C7_SimpleAnswerEvents ==
    \A s \in Sessions :
        pc[s] = "returned" /\ llm_calls[s] = 1 /\ result[s].value = "answer"
            => /\ { "state.conversation_start", "message.user", "turn.start",
                    "state.thinking", "message.assistant", "state.responding",
                    "state.conversation_end", "turn.end" } \subseteq Types(trace[s])
               /\ LastEvent(s) = Ev("turn.end", 1)
               /\ Stored(s) = << Message("user", StrContent("input", UserInputLen)),
                                 Message("assistant", StrContent("answer", AnswerLen)) >>

\* what can be raised at each place of the loop
Raisable(p) ==
    IF p = "llm" THEN {"LLMError"}
    ELSE IF p = "summarize" THEN {"LLMError", "StoreError", "AttributeError"}
    ELSE {"StoreError"}

\* C8: when an exception escapes inside the loop (LLM call, summarizer,
\* store write), the last three events of the turn are state.error,
\* state.conversation_end, turn.end, each emitted once, and run raises the
\* exception of the failing call.
C8_ErrorPath ==
    [][ \A s \in Sessions :
          ( /\ pc[s] \in {"loop_top", "summarize", "llm", "final", "tools"}
            /\ pc'[s] = "raised" )
          => LET tr == trace'[s]
                 n == Len(tr)
             IN  /\ n >= 3
                 /\ tr[n - 2].type = "state.error"
                 /\ tr[n - 1].type = "state.conversation_end"
                 /\ tr[n].type = "turn.end"
                 /\ CountType(tr, "state.error") = 1
                 /\ CountType(tr, "state.conversation_end") = 1
                 /\ CountType(tr, "turn.end") = 1
                 /\ result'[s].how = "raised"
                 /\ result'[s].value \in Raisable(pc[s]) ]_vars

C8_Witness ==
    \E s \in Sessions :
        /\ pc[s] = "raised"
        /\ result[s].value = "LLMError"
        /\ "state.error" \in Types(trace[s])

\* C9: every way a started turn ends (tool failure, cancellation, iteration
\* exhaustion, exception in the loop) leaves a final assistant text as the
\* last stored message of the session.
C9_FinalAssistantMessage ==
    \A s \in Sessions :
        Exited(s) /\ "turn.start" \in Types(trace[s])
            => /\ Stored(s) # <<>>
               /\ Stored(s)[Len(Stored(s))].role = "assistant"
               /\ Stored(s)[Len(Stored(s))].content.kind = "str"

\* C10: whenever run has returned or raised, the state machine is idle.
C10_IdleBetweenTurns ==
    (\A s \in Sessions : ~Running(s)) => state = "idle"

\* the rows of a session that hold a conversation summary
SummaryRows(s) ==
    SelectSeq(SessionRows(rows, s), LAMBDA r : r.content = Encode(SummaryContent))

\* what a load returns for an in-memory list once it went through the store
AsLoaded(msgs) ==
    [i \in 1..Len(msgs) |-> Message(msgs[i].role, Decode(Encode(msgs[i].content)))]

\* C11: a failure of the summarizer during a turn (its LLM call, its append,
\* its metadata update or its event emission raises) does not fail the turn:
\* no step of maybe_summarize ends the run with an exception.
C11_SummarizerFailureContained ==
    [][\A s \in Sessions : pc[s] = "summarize" => pc'[s] # "raised"]_vars

\* C12: once the summarizer has installed the checkpoint K in the session
\* metadata, load_messages_from(session, K) returns the summary message
\* followed by the keep_recent messages the summarizer retained.
C12_CheckpointResumesHistory ==
    [][\A s \in Sessions :
          meta'[s].summary_message_id # meta[s].summary_message_id =>
              load_messages_from(rows', s, meta'[s].summary_message_id)
                  = AsLoaded(Summarized(messages[s]))]_vars

InTable(st, ev) == \E t \in _TRANSITIONS : t[1] = st /\ t[2] = ev

\* C16: process returns one of the six declared states; for a pair that
\* is not in the transition table the state is unchanged and no observer
\* is called; for a pair in the table each registered observer is called
\* exactly once, with (previous state, new state).
C16_ProcessContract ==
    /\ state \in AgentState
    /\ sm_last.returned \in AgentState
    /\ sm_last.returned = state
    /\ sm_last.event # "none" =>
          IF InTable(sm_last.prev, sm_last.event)
          THEN \A i \in 1..Len(sm_last.observers) :
                  LET mine == {k \in 1..Len(sm_last.calls) :
                                  sm_last.calls[k].handler = sm_last.observers[i].id}
                  IN  /\ Cardinality(mine) = 1
                      /\ \A k \in mine :
                            /\ sm_last.calls[k].prev = sm_last.prev
                            /\ sm_last.calls[k].current = sm_last.returned
          ELSE /\ sm_last.returned = sm_last.prev
               /\ sm_last.calls = <<>>

\* a transition with two observers of which the first raises
C16_Witness ==
    /\ sm_last.event # "none"
    /\ InTable(sm_last.prev, sm_last.event)
    /\ Len(sm_last.observers) = 2
    /\ sm_last.observers[1].raises
    /\ Len(sm_last.calls) = 2

\* the transition table the specification requires
RequiredTransition(st, ev) ==
    CASE st = "idle" /\ ev = "state.conversation_start" -> "thinking"
      [] st = "thinking" /\ ev = "state.responding" -> "responding"
      [] st \in {"thinking", "responding"} /\ ev = "state.tool_planned" -> "planning_tool"
      [] st = "planning_tool" /\ ev = "state.tool_executing" -> "awaiting_tool_result"
      [] st = "awaiting_tool_result"
            /\ ev \in {"state.tool_completed", "state.tool_failed"} -> "thinking"
      [] st \in {"responding", "thinking"} /\ ev = "state.conversation_end" -> "idle"
      [] st \in {"thinking", "responding", "planning_tool", "awaiting_tool_result"}
            /\ ev = "state.error" -> "error"
      [] st = "error" /\ ev = "state.conversation_end" -> "idle"
      [] OTHER -> st

\* C17: the state machine implements exactly the required transition
\* table; every other (state, event) pair is a no-op.
C17_TransitionTable ==
    sm_last.event # "none" =>
        sm_last.returned = RequiredTransition(sm_last.prev, sm_last.event)

\* the recovery from the error state was taken
C17_Witness ==
    /\ sm_last.prev = "error"
    /\ sm_last.event = "state.conversation_end"
    /\ state = "idle"

\* the handlers of the bus, by the rank of their registration
Ids(handlers) == {handlers[i].id : i \in 1..Len(handlers)}
ExactIds(t) == IF t \in DOMAIN bus._handlers THEN Ids(bus._handlers[t]) ELSE {}
PrefixIds(t) ==
    UNION {Ids(bus._prefix_handlers[i].handlers) :
              i \in {k \in 1..Len(bus._prefix_handlers) :
                        startswith(Chars(t), bus._prefix_handlers[k].prefix)}}
AllIds == Ids(bus._all_handlers)
Elems(q) == {q[i] : i \in 1..Len(q)}
BusHandlers ==
    UNION {Elems(bus._handlers[t]) : t \in DOMAIN bus._handlers}
    \cup UNION {Elems(bus._prefix_handlers[k].handlers) :
                   k \in 1..Len(bus._prefix_handlers)}
    \cup Elems(bus._all_handlers)
Raising == {h.id : h \in {g \in BusHandlers : g.raises}}

\* the last event given to emit, and the handlers that matched it
Emitted == bus_log.returned # "none"
LastEmitted == bus_log.emitted[Len(bus_log.emitted)]
Matching ==
    {id \in ExactIds(LastEmitted.type) \cup PrefixIds(LastEmitted.type) \cup AllIds :
        id <= bus_log.at}
Group(id) ==
    IF id \in ExactIds(LastEmitted.type) THEN 1
    ELSE IF id \in PrefixIds(LastEmitted.type) THEN 2
    ELSE 3

\* C18: within one emit the matching handlers run in the order exact-type
\* handlers, prefix handlers, subscribe-all handlers, and within each
\* group in the order of their registration, for prefix handlers also when
\* they were registered under different matching prefixes.
C18_HandlerOrder ==
    Emitted =>
        \A i, j \in 1..Len(bus_log.called) :
            i < j =>
                \/ Group(bus_log.called[i]) < Group(bus_log.called[j])
                \/ /\ Group(bus_log.called[i]) = Group(bus_log.called[j])
                   /\ bus_log.called[i] < bus_log.called[j]

\* C19: when a handler raises during emit, every other matching handler
\* is still invoked for the event, the event is recorded in the history,
\* and emit returns normally.
C19_HandlerFailureIsolated ==
    Emitted =>
        /\ bus_log.returned = "ok"
        /\ {bus_log.called[i] : i \in 1..Len(bus_log.called)} = Matching
        /\ Len(bus_log.called) = Cardinality(Matching)
        /\ bus._history # <<>>
        /\ bus._history[Len(bus._history)] = LastEmitted

\* an emit whose first handler raised and that had a handler after it
C19_Witness ==
    /\ Emitted
    /\ Len(bus_log.called) >= 2
    /\ bus_log.called[1] \in Raising
    /\ bus_log.called[2] \notin Raising

\* C20: for any configured history size N and any sequence of emits,
\* get_history() returns exactly the last min(number of emits, N) events
\* in emission order; the history never holds more than N events.
C20_HistoryBound ==
    LET N == bus._history_size
        e == bus_log.emitted
        k == IF Len(e) < N THEN Len(e) ELSE N
    IN  /\ get_history(bus) = SubSeq(e, Len(e) - k + 1, Len(e))
        /\ Len(bus._history) <= N

\* C21: ToolExecutor.execute never raises: an unknown tool name, a tool
\* that exceeds the timeout and a tool that raises each yield a ToolResult
\* with is_error = true, and the tool of an unknown name is never run.
C21_ExecuteNeverRaises ==
    \A i \in 1..Len(te.calls) :
        LET c == te.calls[i]
        IN  /\ ~c.result.raised
            /\ c.tool_name \notin te._tools =>
                  c.result.is_error /\ ~c.result.ran
            /\ c.what \in {"timeout", "raises"} => c.result.is_error

\* an unknown name, a timeout and a raising tool were all executed
C21_Witness ==
    /\ \E i \in 1..Len(te.calls) : te.calls[i].tool_name \notin te._tools
    /\ \E i \in 1..Len(te.calls) : te.calls[i].what = "timeout"
    /\ \E i \in 1..Len(te.calls) : te.calls[i].what = "raises"

\* the events a step added to the trace of a session
NewEvents(s) == SubSeq(trace'[s], Len(trace[s]) + 1, Len(trace'[s]))
Positions(evs, types, id) ==
    {i \in 1..Len(evs) : evs[i].type \in types /\ evs[i].n = id}
OutcomeTypes == {"state.tool_completed", "state.tool_failed"}
ResultTypes == OutcomeTypes \cup {"message.tool_result"}

\* C22: for a batch of tool calls c1..cn all n state.tool_executing events
\* are emitted before any tool result event; for each ci exactly one of
\* state.tool_completed / state.tool_failed and exactly one
\* message.tool_result are emitted, in call order, and the carrier has one
\* result per call; the state machine is back in thinking when the batch
\* returns.
C22_ToolBatch ==
    [][\A s \in Sessions :
          pc[s] = "tools" /\ pc'[s] = "loop_top" =>
              LET tcs == response[s].tool_calls
                  evs == NewEvents(s)
                  carrier == messages'[s][Len(messages'[s])]
              IN  /\ \A k \in 1..Len(tcs) :
                        /\ Cardinality(Positions(evs, {"state.tool_executing"}, tcs[k].id)) = 1
                        /\ Cardinality(Positions(evs, OutcomeTypes, tcs[k].id)) = 1
                        /\ Cardinality(Positions(evs, {"message.tool_result"}, tcs[k].id)) = 1
                        /\ \A l \in 1..Len(tcs) :
                              \A i \in Positions(evs, {"state.tool_executing"}, tcs[k].id),
                                 j \in Positions(evs, ResultTypes, tcs[l].id) : i < j
                        /\ \A l \in 1..Len(tcs) :
                              k < l =>
                                 \A i \in Positions(evs, ResultTypes, tcs[k].id),
                                    j \in Positions(evs, ResultTypes, tcs[l].id) : i < j
                        /\ \A i \in Positions(evs, OutcomeTypes, tcs[k].id),
                              j \in Positions(evs, {"message.tool_result"}, tcs[k].id) : i < j
                  /\ carrier.content.kind = "blocks"
                  /\ Len(carrier.content.blocks) = Len(tcs)
                  /\ \A k \in 1..Len(tcs) :
                        carrier.content.blocks[k].tool_use_id = tcs[k].id
                  /\ state' = "thinking"]_vars

\* the transient failures of a chat that left attempts to spare: each one
\* is to be retried
Retried ==
    {i \in 1..Len(llm.outcomes) :
        llm.outcomes[i] = "transient" /\ i < llm.max_retries}

ChatDone == llm.pc \in {"returned", "raised"}

\* C23: with max_retries = k, chat makes a further attempt after every
\* transient failure but the k-th: it returns the response of the first
\* attempt that succeeds, and it ends on a transient failure only when that
\* was the k-th attempt, raising that error.
C23_RetrySchedule ==
    LET n == Len(llm.outcomes)
    IN  /\ llm.pc = "attempt" => llm.attempt = n + 1 /\ llm.attempt <= llm.max_retries
        /\ ChatDone /\ llm.outcomes[n] = "ok" => llm.pc = "returned"
        /\ ChatDone /\ llm.outcomes[n] = "transient" =>
              n = llm.max_retries /\ llm.raised = "transient"

\* C24: a non-transient error leaves chat at the attempt that raised it,
\* without an llm.retry event for it, and each transient failure that is
\* to be retried emits one llm.retry event, their attempt fields counting
\* 1, 2, ... in order (for a client that was given an event bus).
C24_RetryEvents ==
    llm.event_bus =>
        /\ llm.retries = [i \in 1..Cardinality(Retried) |-> i]
        /\ llm.raised = "fatal" =>
              llm.outcomes[Len(llm.outcomes)] = "fatal"

\* C25: the delay computed before a retry never exceeds retry_max_delay_ms.
C25_DelayCapped == llm.delay_ms <= retry_max_delay_ms

\* C25 as amended: without a parseable Retry-After header the delay never
\* exceeds retry_max_delay_ms; a parseable Retry-After header gives the
\* delay, its seconds times 1000, whatever retry_max_delay_ms is.
C25_DelayCappedWithoutHeader ==
    llm.delay_ms >= 0 =>
        IF llm.retry_after.kind = "seconds"
        THEN llm.delay_ms = llm.retry_after.seconds * 1000
        ELSE llm.delay_ms <= retry_max_delay_ms

\* a retry whose backoff is cut down to retry_max_delay_ms
C25_Witness ==
    /\ llm.retry_after.kind # "seconds"
    /\ llm.delay_ms = retry_max_delay_ms
    /\ llm.attempt >= 2

\* the sub-collectors of a call that were run and failed
FailedCollectors(c) ==
    (IF c.health = "raises" THEN {"health_check"} ELSE {})
    \cup (IF c.health = "true"
          THEN (IF c.stats = "raises" THEN {"system_stats"} ELSE {})
               \cup (IF c.models = "raises" THEN {"list_models"} ELSE {})
               \cup (IF c.queue = "raises" THEN {"get_queue"} ELSE {})
          ELSE {})

\* C26: for every combination of failing sub-collectors collect returns a
\* snapshot without raising, with one entry in snapshot.errors per failing
\* sub-collector that was run; stats, models and queue are run only if the
\* health check reported a connection.
C26_ProbeNeverRaises ==
    \A i \in 1..Len(probe.calls) :
        LET c == probe.calls[i]
        IN  /\ ~c.snap.raised
            /\ Len(c.snap.errors) = Cardinality(FailedCollectors(c))
            /\ {c.snap.errors[j] : j \in 1..Len(c.snap.errors)} = FailedCollectors(c)
            /\ c.health # "true" =>
                  c.snap.collected \subseteq {"node_index"}
            /\ i = Len(probe.calls) => probe._cached = c.snap

\* a connected probe where two of the three calls fail, and one where the
\* health check itself raises
C26_Witness ==
    /\ \E i \in 1..Len(probe.calls) :
          LET c == probe.calls[i]
          IN  /\ c.health = "true" /\ c.stats = "raises" /\ c.queue = "raises"
              /\ c.models = "ok" /\ "list_models" \in c.snap.collected
    /\ \E i \in 1..Len(probe.calls) :
          probe.calls[i].health = "raises" /\ probe.calls[i].models = "raises"

\* the text is one JSON object, with white space around it or inside a
\* code fence
JsonObjectIn(t) ==
    LET words == SelectSeq(t, LAMBDA x : ~IsSpace(x))
        inner == IF Len(words) >= 2 /\ words[1] = Fence
                 THEN SelectSeq(words, LAMBDA x : x.tok = "json")
                 ELSE words
    IN  Len(inner) = 1 /\ inner[1].tok = "json" /\ inner[1].value.json = "object"

\* C27: analyze never raises, and whenever the LLM call raises or the
\* response text is not a JSON object it returns default_result():
\* environment_needed = true and suggested_sections = every section name
\* (every category but identity, which the builder always keeps).
C27_IntentFailOpen ==
    \A i \in 1..Len(intent.calls) :
        LET c == intent.calls[i]
        IN  /\ c.raised = "none"
            /\ c.llm_raises \/ ~JsonObjectIn(c.response_text) =>
                  /\ c.result = default_result
                  /\ c.result.environment_needed
                  /\ c.result.suggested_sections = Tail(SectionCategory)

\* a response that is JSON but no object: data.get raises AttributeError,
\* which only the try of analyze catches
C27_Witness ==
    \E i \in 1..Len(intent.calls) :
        LET c == intent.calls[i]
        IN  /\ ~c.llm_raises
            /\ c.response_text = <<Json([json |-> "array"])>>
            /\ c.result = default_result

\* the category order the specification fixes
CategoryOrder ==
    <<"identity", "knowledge", "experience", "environment",
      "workflow_strategy", "tool_reference", "rules", "error_handling">>
CategoryRank(c) == CHOOSE i \in 1..Len(CategoryOrder) : CategoryOrder[i] = c

\* C28: for every set of registered sections and every intent result the
\* contents in the output of build appear in the fixed category order
\* identity, knowledge, experience, environment, workflow_strategy,
\* tool_reference, rules, error_handling, and within one category in
\* ascending priority.
C28_PromptOrder ==
    \A b \in 1..Len(prompt.builds) :
        LET out == prompt.builds[b].out
        IN  /\ Len(out.text) = IF out.sections = <<>> THEN 1 ELSE Len(out.sections)
            /\ \A i, j \in 1..Len(out.sections) :
                  i < j =>
                     /\ out.text[i] = out.sections[i].name
                     /\ CategoryRank(out.sections[i].category)
                           <= CategoryRank(out.sections[j].category)
                     /\ out.sections[i].category = out.sections[j].category =>
                           out.sections[i].priority <= out.sections[j].priority

\* a prompt of the three environment sections and a rules section, where
\* the registered ones were registered in the opposite order
C28_Witness ==
    /\ Len(prompt._sections) >= 2
    /\ prompt._sections[1].name = "rules"
    /\ prompt._sections[2].name = "gpu_notes"
    /\ \E b \in 1..Len(prompt.builds) :
          LET text == prompt.builds[b].out.text
          IN  /\ prompt.builds[b].intent_result # <<>>
              /\ \E i \in 1..Len(text) :
                    /\ i + 3 <= Len(text)
                    /\ text[i] = "environment" /\ text[i + 1] = "canvas"
                    /\ text[i + 2] = "gpu_notes" /\ text[i + 3] = "rules"

\* the builds that were given both an environment snapshot and an intent
\* result
EnvBuilds ==
    {b \in 1..Len(prompt.builds) :
        prompt.builds[b].environment # <<>> /\ prompt.builds[b].intent_result # <<>>}
EnvPresent(b) == "environment" \in Range(prompt.builds[b].out.text)

C31_AppendOnly ==
    [][/\ Len(rows') >= Len(rows)
       /\ \A i \in 1..Len(rows) : rows'[i] = rows[i]
       /\ \A s \in Sessions :
             /\ load_messages(rows, s)
                   = SubSeq(load_messages(rows', s), 1, Len(load_messages(rows, s)))
             /\ meta'[s].summary_message_id # meta[s].summary_message_id =>
                   /\ meta'[s].summary_message_id > meta[s].summary_message_id
                   /\ meta'[s].summary_message_id = rows'[Len(rows')].id
                   /\ Len(rows') > Len(rows)]_vars

\* a session whose checkpoint was moved a second time, by a later turn
C31_Witness ==
    \E s \in Sessions :
        /\ Len(SummaryRows(s)) >= 2
        /\ meta[s].summary_message_id = SummaryRows(s)[Len(SummaryRows(s))].id
        /\ TurnsRun(s) >= 2

\* the events of session s in what subscriber h was given, in that order
DeliveredOf(h, s) ==
    SelectSeq(fan.delivered[h], LAMBDA e : e.session_id = s)

\* C32: for every subscriber that stays subscribed, two events emitted by
\* the same session's agent loop are delivered to it in the order in which
\* the loop emitted them, also when turns of other sessions emit events
\* concurrently.
C32_PerSessionOrder ==
    \A h \in 1..Len(fan.delivered) : \A s \in Sessions :
        LET d == DeliveredOf(h, s)
        IN  \A i, j \in 1..Len(d) : i < j => d[i].n < d[j].n

\* a subscriber that got two events of one session with an event of the
\* other session between them
C32_Witness ==
    \E h \in 1..Len(fan.delivered) :
        /\ h \notin fan.closed
        /\ Len(fan.delivered[h]) >= 3
        /\ fan.delivered[h][1].session_id = "s1"
        /\ fan.delivered[h][2].session_id = "s2"
        /\ fan.delivered[h][3].session_id = "s1"

\* the rows a turn of session s appended for its conversation, in the order
\* of the store
TurnRows(s) ==
    SelectSeq(SessionRows(rows, s), LAMBDA r : r.content # Encode(SummaryContent))

\* the message.user and message.assistant events of the turn, as emitted
MessageEvents(s) ==
    SelectSeq(trace[s], LAMBDA e : e.type \in {"message.user", "message.assistant"})

\* the row the k-th of these events is about: the user message, then the
\* assistant message of every iteration (a carrier follows each but the last)
RowOfEvent(k) == IF k = 1 THEN 1 ELSE 2 * (k - 1)

\* the number of tool_use blocks of a stored content
ToolUses(c) ==
    IF c.v.kind = "blocks"
    THEN Cardinality({i \in 1..Len(c.v.blocks) : c.v.blocks[i].type = "tool_use"})
    ELSE 0

\* C33: whenever the loop emits message.user or message.assistant, the
\* corresponding message has already been appended to the session store,
\* and the store appends of one turn happen in the same order as the appends
\* to the in-memory message list (user, then each assistant message followed
\* by its carrier, then the final assistant message).
C33_StoredBeforeEmitted ==
    \A s \in Sessions :
        /\ \A k \in 1..Len(MessageEvents(s)) :
              /\ RowOfEvent(k) <= Len(TurnRows(s))
              /\ LET r == TurnRows(s)[RowOfEvent(k)]
                 IN  /\ "message." \o r.role = MessageEvents(s)[k].type
                     /\ ToolUses(r.content) = MessageEvents(s)[k].n
        /\ Len(TurnRows(s)) <= Len(messages[s])
        /\ \A i \in 1..Len(TurnRows(s)) :
              /\ TurnRows(s)[i].role = messages[s][i].role
              /\ TurnRows(s)[i].content = Encode(messages[s][i].content)
        /\ \A i \in 1..Len(TurnRows(s)) :
              TurnRows(s)[i].role = IF i % 2 = 1 THEN "user" ELSE "assistant"

\* a turn that returned its answer after a tool batch: user, assistant,
\* carrier and final assistant message are stored, three events emitted
C33_Witness ==
    \E s \in Sessions :
        /\ pc[s] = "returned"
        /\ Len(TurnRows(s)) = 4
        /\ Len(MessageEvents(s)) = 3
        /\ TurnRows(s)[3].content.v.kind = "blocks"

\* ceil(n / 4)
CeilQuarter(n) == (n + 3) \div 4

\* C34: for every text, estimate_tokens(text) equals
\* max(1, ceil(len(text) / 4)), and the estimate of a message list is the
\* sum over its messages of 4 plus the estimate of the message's extracted
\* text.
C34_TokenEstimate ==
    /\ \A i \in 1..Len(cm_in) :
          estimate_tokens(_content_text(cm_in[i].content))
              = Max(1, CeilQuarter(_content_text(cm_in[i].content)))
    /\ estimate_messages_tokens(cm_in)
          = SumSeq([i \in 1..Len(cm_in) |->
                       4 + estimate_tokens(_content_text(cm_in[i].content))])

\* C35: tool output truncation returns a text of length at most the limit
\* unchanged, and for every text longer than the limit returns a text that
\* is strictly shorter than the original, starts with the first limit//2
\* characters and ends with the last limit//2 characters of the original.
C35_TruncationShortens ==
    te.calls # <<>> =>
        LET text == te.text
            out == te.calls[1]
            half == te.max_len \div 2
        IN  IF Len(text) <= te.max_len THEN out = text
            ELSE /\ Len(out) < Len(text)
                 /\ SubSeq(out, 1, half) = SubSeq(text, 1, half)
                 /\ SubSeq(out, Len(out) - half + 1, Len(out))
                       = SubSeq(text, Len(text) - half + 1, Len(text))

\* a turn that has started loading and has not ended
TurnInProgress(t) ==
    web.tasks[t].pc \in {"append_user", "llm", "append_assistant"}

\* the tasks whose turns appended the messages of a session, in the order
\* of the log
AppendedBy(sid) ==
    LET log == SelectSeq(web.messages,
                         LAMBDA m : m.session_id = sid /\ m.by # "none")
    IN  [i \in 1..Len(log) |-> log[i].by]

\* C36: for any session at most one agent turn is in progress at a time:
\* when a second chat request for the same session arrives (over WebSocket
\* or HTTP) before the first turn has emitted turn.end, the second turn does
\* not start loading or appending messages until the first has finished, so
\* the messages of two turns never interleave in the session's log.
C36_OneTurnPerSession ==
    /\ \A t, u \in Callers :
          t # u /\ TurnInProgress(t) /\ TurnInProgress(u)
              => web.tasks[t].session_id # web.tasks[u].session_id
    /\ \A sid \in Sessions :
          LET by == AppendedBy(sid)
          IN  \A i, j, k \in 1..Len(by) :
                  i < j /\ j < k /\ by[i] = by[k] => by[j] = by[i]

\* C38: after any sequence of create_session, create_child_session,
\* append_message, delete_session and agent turns (including delete_session
\* issued while a turn for that session is running, and a turn run on an id
\* that was never created), every stored message belongs to a session that
\* exists in the sessions table.
C38_NoOrphanMessages ==
    \A i \in 1..Len(web.messages) :
        SessionExists(web, web.messages[i].session_id)

\* the state of the machine while the tools of a batch run: after the
\* batch's state.tool_planned and state.tool_executing
StateInBatch(st) ==
    process(process(st, "state.tool_planned"), "state.tool_executing")

\* C37: when turns of two different sessions run concurrently on the same
\* AgentLoop, the state machine still tracks a running turn: while any
\* session is between its state.conversation_start and its
\* state.conversation_end the state is not idle, and while a session's tool
\* batch is executing the state is awaiting_tool_result.
C37_TracksRunningTurn ==
    [][/\ (\E s \in Sessions : pc'[s] \notin {"idle", "returned", "raised"})
              => state' # "idle"
       /\ \A s \in Sessions :
              pc[s] = "tools" /\ pc'[s] = "loop_top"
                  => StateInBatch(state) = "awaiting_tool_result"]_vars

\* C39: a session's total_input_tokens and total_output_tokens are
\* cumulative counters: after each turn they equal the sum of the usage
\* reported by every LLM call of every turn run so far in that session, and
\* they never decrease from one turn to the next (whichever way the turn
\* ended).
C39_CumulativeTotals ==
    [][\A s \in Sessions :
          /\ pc'[s] \in {"returned", "raised"} =>
                /\ meta'[s].total_input_tokens = llm_calls'[s] * UsageIn
                /\ meta'[s].total_output_tokens = llm_calls'[s] * UsageOut
          /\ meta'[s].total_input_tokens >= meta[s].total_input_tokens
          /\ meta'[s].total_output_tokens >= meta[s].total_output_tokens]_vars

\* C40: a cancel(session_id) issued while no turn is running for that
\* session does not cancel a later turn: the next run for that session
\* resets the flag, makes its LLM call and can return a normal final answer.
C40_IdleCancelForgotten ==
    [][\A s \in Sessions :
          idle_cancel'[s] = "carried" =>
              /\ pc[s] = "append_user" /\ pc'[s] = "loop_top"
                    => ~CancelRequested(cancel_flags', s)
              /\ pc[s] = "loop_top" /\ iteration[s] = -1 /\ pc'[s] # "loop_top"
                    => pc'[s] = "summarize"
              /\ pc[s] = "summarize" /\ pc'[s] = "llm"
                    => ~CancelRequested(cancel_flags, s) \/ cancel_at[s] >= 1
              /\ pc'[s] = "returned" /\ cancel_at'[s] = -1
                    => result'[s].value # CancelledText]_vars

\* a turn that started with the flag set by an earlier cancel and returned
\* the answer of the LLM
C40_Witness ==
    \E s \in Sessions :
        /\ idle_cancel[s] = "carried"
        /\ pc[s] = "returned"
        /\ result[s].value = "answer"
        /\ llm_calls[s] >= 1
        /\ cancel_at[s] = -1

====
